---------------------------- MODULE Spec2Model ----------------------------
(***************************************************************************)
(* Verification model of the ATLAS request pipeline                        *)
(* (AI-as-Infrastructure/aiinfra-atlas-darwin, backend/).                  *)
(*                                                                         *)
(* Two state machines share this module:                                   *)
(*   SpecStream - POST /api/ask/stream: the response_generator coroutine   *)
(*                of backend/app.py, the LLM slot semaphore, the SSE       *)
(*                frames it yields and the span registry records it makes. *)
(*   SpecQueue  - the async job queue: queue_request, the worker loop,     *)
(*                update_request_status and get_request_status over a      *)
(*                key-value store with expiring keys.                      *)
(* Each specification leaves the other machine's variables unchanged.      *)
(***************************************************************************)
EXTENDS Integers, Sequences, FiniteSets, TLC

(***************************************************************************)
(* Bounds of the model.                                                    *)
(***************************************************************************)
NumRequests == 3        \* concurrent /api/ask/stream requests
MaxChunks == 1          \* text chunks one LLM stream may yield

NumJobs == 1            \* async jobs submitted
NumWorkers == 1         \* worker processes
MaxTicks == 3           \* clock advances
MaxRedisFailures == 1   \* store commands that raise

\* Program constants of the async queue.
REQUEST_TTL == 3600
RESULT_TTL == 3600

Requests == 1..NumRequests
Jobs == 1..NumJobs
Workers == 1..NumWorkers

\* Amounts by which the clock advances in one step.
TimeSteps == {1, REQUEST_TTL, REQUEST_TTL + 1}

\* Values of the environment variable LLM_MAX_CONCURRENT that are tried.
ConfiguredLimits == {1, 2}

VARIABLES
    \* ---- /api/ask/stream (backend/app.py, modules/llm.py, modules/streaming.py)
    max_concurrent_requests, \* LLMResourceManager.max_concurrent_requests
    request_semaphore,       \* value of LLMResourceManager.request_semaphore
    pc,                      \* position of each request's response_generator
    frames,                  \* SSE frames each response has yielded, in order
    acquired,                \* times acquire_llm_slot returned for the request
    released,                \* times release_llm_slot was called for it
    llm_raised,              \* the LLM adapter raised while streaming
    chunk_count,             \* chunks the adapter has produced
    llm_span,                \* the generation span: "none", "open", "closed"
    gen_outcome,             \* how the generation span ended
    registry                 \* span registry: request -> key -> registered span

VARIABLES
    \* ---- async job queue (services/queue_manager.py, services/worker.py, app.py)
    now,                \* wall clock of the key-value store, in seconds
    ticks,              \* number of clock advances so far
    request_key,        \* the hash request:<id> of each job
    result_key,         \* the string key result:<id> of each job
    request_queue,      \* the list llm_request_queue, head first
    worker,             \* each worker's position, job, update phase and result
    redis_failures,     \* store commands that have raised so far
    poll,               \* the GET /api/ask/async/{id} call and its response
    status_writes,      \* statuses written to each job's record, in order
    pipeline_raised,    \* the pipeline raised while the job was processed
    completed_poll_at   \* time at which a GET first returned completed

queueVars == <<now, ticks, request_key, result_key, request_queue, worker,
               redis_failures, poll, status_writes,
               pipeline_raised, completed_poll_at>>

streamVars == <<max_concurrent_requests, request_semaphore, pc, frames, acquired,
                released, llm_raised, chunk_count, llm_span, gen_outcome, registry>>

VARIABLES
    \* ---- POST /api/feedback (telemetry/api.py, telemetry/feedback.py)
    fb_enabled,         \* is_telemetry_enabled(request) for the feedback request
    fb_registry,        \* span registry of the session: key -> span id, 0 if none
    fb_feedback,        \* the feedback object: sentiment and relevance
    fb_pc,              \* position of submit_feedback
    fb_key,             \* key that find_qa_span_id_with_retry is looking up
    fb_attempt,         \* index i of its retry loop
    fb_sleeps,          \* delays slept between attempts, in milliseconds
    fb_queries,         \* keys the registry was asked for, in order
    fb_span,            \* span id the lookup returned, 0 if none
    fb_posted,          \* annotations sent to the tracing backend
    fb_status           \* status of the FeedbackResponse, "none" before it

feedbackVars == <<fb_enabled, fb_registry, fb_feedback, fb_pc, fb_key, fb_attempt,
                  fb_sleeps, fb_queries, fb_span, fb_posted, fb_status>>

VARIABLES
    \* ---- prompt cache (modules/prompt_cache.py)
    cache_enabled,      \* UniversalPromptCache.enabled
    cache_system,       \* UniversalPromptCache.cache_system
    cache_context,      \* UniversalPromptCache.cache_context
    cache,              \* UniversalPromptCache.cache: the set of its entries
    cache_now,          \* datetime.now(), in minutes
    cache_ticks,        \* number of clock advances so far
    cache_calls         \* build_optimized_prompt calls made: arguments, result, stats

cacheVars == <<cache_enabled, cache_system, cache_context, cache, cache_now,
               cache_ticks, cache_calls>>

VARIABLES
    \* ---- reciprocal rank fusion (modules/hybrid_search.py)
    rrf_dense,          \* rrf_merge argument dense: (doc_id, score) items
    rrf_lexical,        \* rrf_merge argument lexical
    rrf_top_k,          \* rrf_merge argument top_k
    rrf_result,         \* the list rrf_merge returned
    rrf_pc              \* "ready" before the call, "done" after it

rrfVars == <<rrf_dense, rrf_lexical, rrf_top_k, rrf_result, rrf_pc>>

VARIABLES
    \* ---- document retrieval (retrievers/, app.py ask_stream)
    ret_retriever,      \* the configured retriever: "hansard" or "darwin"
    ret_corpus,         \* metadata.corpus of each stored document
    ret_search_type,    \* DarwinRetriever's search_type
    ret_request,        \* the request's corpus_filter, as sent
    ret_k,              \* the number of documents asked for
    ret_documents,      \* the documents retrieval returned
    ret_pc              \* "ready" before retrieval, "done" after it

retrievalVars == <<ret_retriever, ret_corpus, ret_search_type, ret_request,
                   ret_k, ret_documents, ret_pc>>

VARIABLES
    \* ---- citation aggregation (modules/citations.py)
    cit_documents,      \* aggregate_parent_citations argument documents
    cit_limit,          \* aggregate_parent_citations argument limit
    cit_citations,      \* the list aggregate_parent_citations returned
    cit_pc              \* "ready" before the call, "done" after it

citationVars == <<cit_documents, cit_limit, cit_citations, cit_pc>>

VARIABLES
    \* ---- reranking (modules/document_reranking.py)
    rr_documents,       \* _rerank_documents_internal argument documents
    rr_query,           \* _rerank_documents_internal argument query
    rr_max_docs,        \* _rerank_documents_internal argument max_docs
    rr_reranked,        \* the documents returned, each with its input position
    rr_scores,          \* the scores returned, in tenths
    rr_pc               \* "ready" before the call, "done" after it

rerankVars == <<rr_documents, rr_query, rr_max_docs, rr_reranked, rr_scores, rr_pc>>

VARIABLES
    \* ---- request validation (app.py: query, ask_stream)
    vl_endpoint,        \* "query" or "ask_stream"
    vl_raw,             \* the question as sent: whitespace around a core text
    vl_pc,              \* "received", "rejected", "validated", "retrieving"
    vl_status_code,     \* the HTTPException status code, 0 when none was raised
    vl_detail           \* which check raised: "length", "content" or ""

validateVars == <<vl_endpoint, vl_raw, vl_pc, vl_status_code, vl_detail>>

VARIABLES
    \* ---- stages of one request (app.py response_generator, llm_service.py)
    pl_path,            \* "stream" (/api/ask/stream) or "sync" (process_query_sync)
    pl_question,        \* the question
    pl_retriever,       \* what the retriever will answer: "raises" or documents
    pl_documents,       \* the local variable documents, each with its retrieved position
    pl_stages,          \* the stages that ran, in order
    pl_pc               \* the next stage, or "ok" / "error"

pipelineVars == <<pl_path, pl_question, pl_retriever, pl_documents, pl_stages, pl_pc>>

VARIABLES
    \* ---- DarwinRetriever.invoke with direction and time period filters
    hy_metadata,        \* metadata of each stored chunk (Chroma and the BM25 sidecar)
    hy_direction,       \* config["direction_filter"]
    hy_time_period,     \* config["time_period_filter"]
    hy_search_type,     \* "hybrid" or "similarity"
    hy_k,               \* the argument k
    hy_documents,       \* the documents invoke returned
    hy_pc               \* "ready" before the call, "done" after it

hybridVars == <<hy_metadata, hy_direction, hy_time_period, hy_search_type, hy_k,
                hy_documents, hy_pc>>

VARIABLES
    \* ---- span registry of one session (telemetry/registry.py, RedisSpanRegistry)
    sr_now,             \* the clock, in seconds
    sr_ticks,           \* how often the clock has advanced
    sr_pc,              \* per request: "new", "pipeline", "generation", "done"
    sr_memory,          \* self._registry[session_id]: pairs in insertion order
    sr_redis,           \* the session hash in the store: fields and expiry
    sr_registered_at,   \* per key: when it was last registered, Absent if never
    sr_first_pipeline,  \* the first pipeline span created in the session
    sr_found,           \* the last find_span: its key and what it returned
    sr_found_root       \* what the last find_root_span returned

sessionVars == <<sr_now, sr_ticks, sr_pc, sr_memory, sr_redis, sr_registered_at,
                 sr_first_pipeline, sr_found, sr_found_root>>

\* Two threads of the LLM thread pool inside the one prompt cache of their
\* process: where each stands in get_cached_prompt, the expired keys its
\* cleanup listed, the hit_count it loaded, and the cache itself reduced to
\* the entry they share and one other entry.
VARIABLES rc_pc, rc_expired_keys, rc_loaded, rc_hit_count, rc_initial_hits, rc_other
raceVars == <<rc_pc, rc_expired_keys, rc_loaded, rc_hit_count, rc_initial_hits, rc_other>>

\* One request's document retrieval as its endpoint drives it: the endpoint,
\* where the handler stands, the outcome of every attempt so far, the waits
\* slept between attempts, the current retry_delay and the HTTP status.
VARIABLES rt_endpoint, rt_pc, rt_attempts, rt_waits, rt_retry_delay, rt_status
retryVars == <<rt_endpoint, rt_pc, rt_attempts, rt_waits, rt_retry_delay, rt_status>>

\* The vector store manager of a process: time.time(), the clock advances
\* made, _last_cleanup, the keys of _connections with their _last_used time,
\* and what the last get_vector_store returned.
VARIABLES vs_now, vs_ticks, vs_last_cleanup, vs_last_used, vs_returned
storeVars == <<vs_now, vs_ticks, vs_last_cleanup, vs_last_used, vs_returned>>

\* The variables that neither the streaming path nor the job queue touches.
restVars == <<feedbackVars, cacheVars, rrfVars, retrievalVars, citationVars, rerankVars, validateVars, pipelineVars, hybridVars, sessionVars, raceVars, retryVars, storeVars>>

\* What each of the other machines leaves unchanged.
notFeedbackVars == <<streamVars, queueVars, cacheVars, rrfVars, retrievalVars, citationVars, rerankVars, validateVars, pipelineVars, hybridVars, sessionVars, raceVars, retryVars, storeVars>>
notCacheVars == <<streamVars, queueVars, feedbackVars, rrfVars, retrievalVars, citationVars, rerankVars, validateVars, pipelineVars, hybridVars, sessionVars, raceVars, retryVars, storeVars>>
notRrfVars == <<streamVars, queueVars, feedbackVars, cacheVars, retrievalVars, citationVars, rerankVars, validateVars, pipelineVars, hybridVars, sessionVars, raceVars, retryVars, storeVars>>
notRetrievalVars == <<streamVars, queueVars, feedbackVars, cacheVars, rrfVars, citationVars, rerankVars, validateVars, pipelineVars, hybridVars, sessionVars, raceVars, retryVars, storeVars>>
notCitationVars == <<streamVars, queueVars, feedbackVars, cacheVars, rrfVars, retrievalVars, rerankVars, validateVars, pipelineVars, hybridVars, sessionVars, raceVars, retryVars, storeVars>>
notRerankVars == <<streamVars, queueVars, feedbackVars, cacheVars, rrfVars, retrievalVars, citationVars, validateVars, pipelineVars, hybridVars, sessionVars, raceVars, retryVars, storeVars>>
notValidateVars == <<streamVars, queueVars, feedbackVars, cacheVars, rrfVars, retrievalVars, citationVars, rerankVars, pipelineVars, hybridVars, sessionVars, raceVars, retryVars, storeVars>>
notPipelineVars == <<streamVars, queueVars, feedbackVars, cacheVars, rrfVars, retrievalVars, citationVars, rerankVars, validateVars, hybridVars, sessionVars, raceVars, retryVars, storeVars>>
notHybridVars == <<streamVars, queueVars, feedbackVars, cacheVars, rrfVars, retrievalVars, citationVars, rerankVars, validateVars, pipelineVars, sessionVars, raceVars, retryVars, storeVars>>
notSessionVars == <<streamVars, queueVars, feedbackVars, cacheVars, rrfVars, retrievalVars, citationVars, rerankVars, validateVars, pipelineVars, hybridVars, raceVars, retryVars, storeVars>>
notRaceVars == <<streamVars, queueVars, feedbackVars, cacheVars, rrfVars, retrievalVars, citationVars, rerankVars, validateVars, pipelineVars, hybridVars, sessionVars, retryVars, storeVars>>
notRetryVars == <<streamVars, queueVars, feedbackVars, cacheVars, rrfVars, retrievalVars, citationVars, rerankVars, validateVars, pipelineVars, hybridVars, sessionVars, raceVars, storeVars>>
notStoreVars == <<streamVars, queueVars, feedbackVars, cacheVars, rrfVars, retrievalVars, citationVars, rerankVars, validateVars, pipelineVars, hybridVars, sessionVars, raceVars, retryVars>>

vars == <<streamVars, queueVars, restVars>>

(***************************************************************************)
(* SSE frames.  A frame is named by its event type and, for error frames   *)
(* and chunks, by the fixed text or the origin of its text.                *)
(***************************************************************************)
ChunkFrames == {"chunk", "chunk_fallback", "chunk_exception"}
ErrorFrames == {"error_retrieval", "error_pipeline", "error_processing",
                "error_streaming", "error_reference"}
TerminalFrames == ErrorFrames \cup {"complete"}

RegistryKeys == {"qa_id", "qa_id_response", "qa_id_references"}

\* A key that does not exist, and the values of an idle worker and poller.
NoExpiry == 0 - 1
AbsentRequest == [present |-> FALSE, status |-> "none", meta |-> FALSE, expire_at |-> NoExpiry]
AbsentResult == [present |-> FALSE, kind |-> "none", expire_at |-> NoExpiry]
IdleWorker == [pc |-> "idle", job |-> 0, phase |-> "none", result |-> "none"]
IdlePoll == [pc |-> "idle", job |-> 0, issued |-> 0, status |-> "none", http |-> 0,
             has_result |-> FALSE, has_error |-> FALSE, late |-> FALSE]

QueueInit ==
    /\ now = 0
    /\ ticks = 0
    /\ request_key = [j \in Jobs |-> AbsentRequest]
    /\ result_key = [j \in Jobs |-> AbsentResult]
    /\ request_queue = <<>>
    /\ worker = [w \in Workers |-> IdleWorker]
    /\ redis_failures = 0
    /\ poll = IdlePoll
    /\ status_writes = [j \in Jobs |-> <<>>]
    /\ pipeline_raised = [j \in Jobs |-> FALSE]
    /\ completed_poll_at = [j \in Jobs |-> NoExpiry]

StreamInit ==
    /\ max_concurrent_requests \in ConfiguredLimits
    /\ request_semaphore = max_concurrent_requests
    /\ pc = [r \in Requests |-> "idle"]
    /\ frames = [r \in Requests |-> <<>>]
    /\ acquired = [r \in Requests |-> 0]
    /\ released = [r \in Requests |-> 0]
    /\ llm_raised = [r \in Requests |-> FALSE]
    /\ chunk_count = [r \in Requests |-> 0]
    /\ llm_span = [r \in Requests |-> "none"]
    /\ gen_outcome = [r \in Requests |-> "none"]
    /\ registry = [r \in Requests |-> [k \in RegistryKeys |-> "none"]]

\* Keys of the span registry that feedback association looks up.
FeedbackKeys == {"qa_id", "qa_id_response"}

\* No feedback request has been made; the registry holds nothing.
FeedbackIdle ==
    /\ fb_enabled = FALSE
    /\ fb_registry = [k \in FeedbackKeys |-> 0]
    /\ fb_feedback = [sentiment |-> "none", relevance |-> 0]
    /\ fb_pc = "idle"
    /\ fb_key = "none"
    /\ fb_attempt = 0
    /\ fb_sleeps = <<>>
    /\ fb_queries = <<>>
    /\ fb_span = 0
    /\ fb_posted = <<>>
    /\ fb_status = "none"

\* A cache that has served no call; caching is enabled.
CacheIdle ==
    /\ cache_enabled = TRUE
    /\ cache_system = TRUE
    /\ cache_context = TRUE
    /\ cache = {}
    /\ cache_now = 0
    /\ cache_ticks = 0
    /\ cache_calls = <<>>

\* rrf_merge has not been called.
RrfIdle ==
    /\ rrf_dense = <<>>
    /\ rrf_lexical = <<>>
    /\ rrf_top_k = 0
    /\ rrf_result = <<>>
    /\ rrf_pc = "ready"

\* No retrieval is asked for.
RetrievalIdle ==
    /\ ret_retriever = "hansard"
    /\ ret_corpus = [d \in {"A", "B", "C"} |-> "1901_au"]
    /\ ret_search_type = "similarity"
    /\ ret_request = "all"
    /\ ret_k = 1
    /\ ret_documents = <<>>
    /\ ret_pc = "ready"

\* aggregate_parent_citations has not been called.
CitationIdle ==
    /\ cit_documents = <<>>
    /\ cit_limit = 1
    /\ cit_citations = <<>>
    /\ cit_pc = "ready"

\* _rerank_documents_internal has not been called.
RerankIdle ==
    /\ rr_documents = <<>>
    /\ rr_query = <<>>
    /\ rr_max_docs = 1
    /\ rr_reranked = <<>>
    /\ rr_scores = <<>>
    /\ rr_pc = "ready"

\* No request is being validated.
ValidateIdle ==
    /\ vl_endpoint = "query"
    /\ vl_raw = [leading |-> 0, core |-> 0, trailing |-> 0, dangerous |-> FALSE]
    /\ vl_pc = "received"
    /\ vl_status_code = 0
    /\ vl_detail = ""

\* No request is in the pipeline.
PipelineIdle ==
    /\ pl_path = "stream"
    /\ pl_question = <<>>
    /\ pl_retriever = [raises |-> FALSE, documents |-> <<>>]
    /\ pl_documents = <<>>
    /\ pl_stages = <<>>
    /\ pl_pc = "guardrail"

\* DarwinRetriever.invoke has not been called with these filters.
HybridIdle ==
    /\ hy_metadata = <<>>
    /\ hy_direction = "all"
    /\ hy_time_period = "all"
    /\ hy_search_type = "hybrid"
    /\ hy_k = 1
    /\ hy_documents = <<>>
    /\ hy_pc = "ready"

\* No request of the session has started.
SessionIdle ==
    /\ sr_now = 0
    /\ sr_ticks = 0
    /\ sr_pc = <<>>
    /\ sr_memory = <<>>
    /\ sr_redis = [fields |-> <<>>, expire_at |-> 0]
    /\ sr_registered_at = <<>>
    /\ sr_first_pipeline = <<"none", 0>>
    /\ sr_found = [key |-> <<"none", 0>>, span |-> <<"none", 0>>]
    /\ sr_found_root = <<"none", 0>>

\* No thread of the pool is inside the prompt cache.
RaceIdle ==
    /\ rc_pc = <<>>
    /\ rc_expired_keys = <<>>
    /\ rc_loaded = <<>>
    /\ rc_hit_count = 0
    /\ rc_initial_hits = 0
    /\ rc_other = "absent"

\* No retrieval has been requested.
RetryIdle ==
    /\ rt_endpoint = "query"
    /\ rt_pc = "idle"
    /\ rt_attempts = <<>>
    /\ rt_waits = <<>>
    /\ rt_retry_delay = 0
    /\ rt_status = 0

\* The manager has just been constructed and holds no connection.
StoreIdle ==
    /\ vs_now = 0
    /\ vs_ticks = 0
    /\ vs_last_cleanup = 0
    /\ vs_last_used = <<>>
    /\ vs_returned = [key |-> "", fresh |-> TRUE, idle |-> 0]

\* The state of everything but the streaming path and the job queue when
\* only those two run.
RestInit == FeedbackIdle /\ CacheIdle /\ RrfIdle /\ RetrievalIdle /\ CitationIdle /\ RerankIdle /\ ValidateIdle /\ PipelineIdle /\ HybridIdle /\ SessionIdle /\ RaceIdle /\ RetryIdle /\ StoreIdle

\* The same, for a machine that runs alone: every other machine is idle.
RestIdleExcept(machine) ==
    /\ IF machine = "feedback" THEN TRUE ELSE FeedbackIdle
    /\ IF machine = "cache" THEN TRUE ELSE CacheIdle
    /\ IF machine = "rrf" THEN TRUE ELSE RrfIdle
    /\ IF machine = "retrieval" THEN TRUE ELSE RetrievalIdle
    /\ IF machine = "citation" THEN TRUE ELSE CitationIdle
    /\ IF machine = "rerank" THEN TRUE ELSE RerankIdle
    /\ IF machine = "validate" THEN TRUE ELSE ValidateIdle
    /\ IF machine = "pipeline" THEN TRUE ELSE PipelineIdle
    /\ IF machine = "hybrid" THEN TRUE ELSE HybridIdle
    /\ IF machine = "session" THEN TRUE ELSE SessionIdle
    /\ IF machine = "race" THEN TRUE ELSE RaceIdle
    /\ IF machine = "retry" THEN TRUE ELSE RetryIdle
    /\ IF machine = "store" THEN TRUE ELSE StoreIdle


(***************************************************************************)
(* Helpers of the streaming path.                                          *)
(***************************************************************************)

\* format_sse_message + yield: one more frame on the response of request r.
yield_frame(r, f) == [frames EXCEPT ![r] = Append(@, f)]

\* SpanRegistry.register_span: the record under the key is replaced.
register_span(r, key, span) == [registry EXCEPT ![r][key] = span]

\* Variant of acquire_llm_slot that does not wait for a free unit: what the
\* slot discipline would be without the semaphore's blocking.
acquire_llm_slot_unguarded(r) ==
    /\ request_semaphore' = request_semaphore - 1
    /\ acquired' = [acquired EXCEPT ![r] = @ + 1]

\* asyncio.Semaphore.acquire as used by acquire_llm_slot: it returns only
\* when the value is positive, and takes one unit.
acquire_llm_slot(r) ==
    /\ request_semaphore > 0
    /\ request_semaphore' = request_semaphore - 1
    /\ acquired' = [acquired EXCEPT ![r] = @ + 1]

\* asyncio.Semaphore.release as used by release_llm_slot: the value grows by
\* one, whatever it was (the semaphore is not a BoundedSemaphore).
release_llm_slot(r) ==
    /\ request_semaphore' = request_semaphore + 1
    /\ released' = [released EXCEPT ![r] = @ + 1]

\* The positions at which response_generator is inside the inner
\* try ... finally of app.py, between acquire_llm_slot and release_llm_slot.
SlotPositions == {"gen_start", "reraise", "streaming", "gen_end",
                  "references", "complete"}

HoldsSlot(r) == pc[r] \in SlotPositions

InFlight == {r \in Requests : HoldsSlot(r)}

\* telemetry_wrapped_generator leaves its `with create_span(...)` block:
\* the generation span is closed, with the way it ended.
close_llm_span(r, how) ==
    /\ llm_span' = [llm_span EXCEPT ![r] = IF @ = "open" THEN "closed" ELSE @]
    /\ gen_outcome' = [gen_outcome EXCEPT ![r] = IF llm_span[r] = "open" THEN how ELSE @]

(***************************************************************************)
(* Actions of POST /api/ask/stream, one per stretch of response_generator  *)
(* between two suspension points (await / yield).                          *)
(***************************************************************************)

\* ask_stream accepts the request; response_generator starts and enters
\* create_rag_pipeline_span, which registers the pipeline span under
\* (session_id, qa_id); the guardrail check runs.
Submit(r) ==
    /\ pc[r] = "idle"
    /\ pc' = [pc EXCEPT ![r] = "retrieve"]
    /\ registry' = register_span(r, "qa_id", "pipeline")
    /\ UNCHANGED <<restVars, queueVars, max_concurrent_requests, request_semaphore, frames, acquired,
                   released, llm_raised, chunk_count, llm_span, gen_outcome>>

\* retrieve_documents_with_telemetry returns documents.
RetrieveDocuments(r) ==
    /\ pc[r] = "retrieve"
    /\ pc' = [pc EXCEPT ![r] = "acquire"]
    /\ UNCHANGED <<restVars, queueVars, max_concurrent_requests, request_semaphore, frames, acquired,
                   released, llm_raised, chunk_count, llm_span, gen_outcome, registry>>

\* retrieve_documents_with_telemetry returns no documents: one error frame,
\* then return.
RetrieveNothing(r) ==
    /\ pc[r] = "retrieve"
    /\ frames' = yield_frame(r, "error_retrieval")
    /\ pc' = [pc EXCEPT ![r] = "done"]
    /\ UNCHANGED <<restVars, queueVars, max_concurrent_requests, request_semaphore, acquired,
                   released, llm_raised, chunk_count, llm_span, gen_outcome, registry>>

\* retrieve_documents_with_telemetry raises (retrieve_documents re-raises
\* every retrieval error): the outer `except Exception` of response_generator
\* calls release_llm_slot and yields the pipeline error frame.
RetrieveRaises(r) ==
    /\ pc[r] = "retrieve"
    /\ release_llm_slot(r)
    /\ frames' = yield_frame(r, "error_pipeline")
    /\ pc' = [pc EXCEPT ![r] = "done"]
    /\ UNCHANGED <<restVars, queueVars, max_concurrent_requests, acquired,
                   llm_raised, chunk_count, llm_span, gen_outcome, registry>>

\* await llm_resource_manager.acquire_llm_slot()
AcquireSlot(r) ==
    /\ pc[r] = "acquire"
    /\ acquire_llm_slot(r)
    /\ pc' = [pc EXCEPT ![r] = "gen_start"]
    /\ UNCHANGED <<restVars, queueVars, max_concurrent_requests, frames,
                   released, llm_raised, chunk_count, llm_span, gen_outcome, registry>>

\* stream_response_chunks asks telemetry_wrapped_generator for its first
\* chunk: the generation span is opened and registered under
\* (session_id, qa_id), replacing the pipeline span's record.
GenerationStarts(r) ==
    /\ pc[r] = "gen_start"
    /\ llm_span' = [llm_span EXCEPT ![r] = "open"]
    /\ registry' = register_span(r, "qa_id", "generation")
    /\ pc' = [pc EXCEPT ![r] = "streaming"]
    /\ UNCHANGED <<restVars, queueVars, max_concurrent_requests, request_semaphore, frames, acquired,
                   released, llm_raised, chunk_count, gen_outcome>>

\* The generator raises before its own try block (span creation or cache
\* statistics fail): stream_response_chunks catches it, yields its error
\* frame and re-raises.
GenerationFailsToStart(r) ==
    /\ pc[r] = "gen_start"
    /\ frames' = yield_frame(r, "error_streaming")
    /\ pc' = [pc EXCEPT ![r] = "reraise"]
    /\ UNCHANGED <<restVars, queueVars, max_concurrent_requests, request_semaphore, acquired,
                   released, llm_raised, chunk_count, llm_span, gen_outcome, registry>>

\* The re-raised exception reaches the inner `except Exception` of
\* response_generator: the sanitized error frame is yielded and the finally
\* block releases the slot.
InnerExcept(r) ==
    /\ pc[r] = "reraise"
    /\ frames' = yield_frame(r, "error_processing")
    /\ release_llm_slot(r)
    /\ pc' = [pc EXCEPT ![r] = "done"]
    /\ UNCHANGED <<restVars, queueVars, max_concurrent_requests, acquired,
                   llm_raised, chunk_count, llm_span, gen_outcome, registry>>

\* llm.stream yields a chunk with content: it is forwarded as a chunk frame.
LLMChunk(r) ==
    /\ pc[r] = "streaming"
    /\ chunk_count[r] < MaxChunks
    /\ chunk_count' = [chunk_count EXCEPT ![r] = @ + 1]
    /\ frames' = yield_frame(r, "chunk")
    /\ UNCHANGED <<restVars, queueVars, max_concurrent_requests, request_semaphore, pc, acquired,
                   released, llm_raised, llm_span, gen_outcome, registry>>

\* llm.stream is exhausted: generate_response returns.
LLMEnds(r) ==
    /\ pc[r] = "streaming"
    /\ pc' = [pc EXCEPT ![r] = "gen_end"]
    /\ UNCHANGED <<restVars, queueVars, max_concurrent_requests, request_semaphore, frames, acquired,
                   released, llm_raised, chunk_count, llm_span, gen_outcome, registry>>

\* llm.stream raises: generate_response catches the exception, yields the
\* text "Error generating response" when nothing was produced yet, and
\* returns normally.
LLMRaises(r) ==
    /\ pc[r] = "streaming"
    /\ llm_raised' = [llm_raised EXCEPT ![r] = TRUE]
    /\ frames' = IF chunk_count[r] = 0 THEN yield_frame(r, "chunk_fallback") ELSE frames
    /\ pc' = [pc EXCEPT ![r] = "gen_end"]
    /\ UNCHANGED <<restVars, queueVars, max_concurrent_requests, request_semaphore, acquired,
                   released, chunk_count, llm_span, gen_outcome, registry>>

\* telemetry_wrapped_generator after its loop: final metrics, then the
\* response span is created and registered under (session_id,
\* qa_id + "_response"); the generation span closes.
GenerationCompletes(r) ==
    /\ pc[r] = "gen_end"
    /\ registry' = register_span(r, "qa_id_response", "response")
    /\ close_llm_span(r, "ok")
    /\ pc' = [pc EXCEPT ![r] = "references"]
    /\ UNCHANGED <<restVars, queueVars, max_concurrent_requests, request_semaphore, frames, acquired,
                   released, llm_raised, chunk_count>>

\* An exception inside the try block of telemetry_wrapped_generator (final
\* metrics or response span): `except Exception as generation_error` yields
\* the text "Error generating response: <exception>" as one more chunk; no
\* response span is registered; the generation span closes.
GenerationExcept(r) ==
    /\ pc[r] = "gen_end"
    /\ frames' = yield_frame(r, "chunk_exception")
    /\ close_llm_span(r, "exception")
    /\ pc' = [pc EXCEPT ![r] = "references"]
    /\ UNCHANGED <<restVars, queueVars, max_concurrent_requests, request_semaphore, acquired,
                   released, llm_raised, chunk_count, registry>>

\* stream_documents_as_references formats the citations and returns the
\* references frame.
References(r) ==
    /\ pc[r] = "references"
    /\ registry' = register_span(r, "qa_id_references", "references")
    /\ frames' = yield_frame(r, "references")
    /\ pc' = [pc EXCEPT ![r] = "complete"]
    /\ UNCHANGED <<restVars, queueVars, max_concurrent_requests, request_semaphore, acquired,
                   released, llm_raised, chunk_count, llm_span, gen_outcome>>

\* Formatting a citation raises: stream_documents_as_references catches the
\* exception and returns an error frame, which response_generator yields in
\* the place of the references frame.
ReferencesExcept(r) ==
    /\ pc[r] = "references"
    /\ registry' = register_span(r, "qa_id_references", "references")
    /\ frames' = yield_frame(r, "error_reference")
    /\ pc' = [pc EXCEPT ![r] = "complete"]
    /\ UNCHANGED <<restVars, queueVars, max_concurrent_requests, request_semaphore, acquired,
                   released, llm_raised, chunk_count, llm_span, gen_outcome>>

\* The completion frame is yielded; the finally block releases the slot.
Complete(r) ==
    /\ pc[r] = "complete"
    /\ frames' = yield_frame(r, "complete")
    /\ release_llm_slot(r)
    /\ pc' = [pc EXCEPT ![r] = "done"]
    /\ UNCHANGED <<restVars, queueVars, max_concurrent_requests, acquired,
                   llm_raised, chunk_count, llm_span, gen_outcome, registry>>

\* The client disconnects while the request waits for a slot: the wait is
\* cancelled (CancelledError is not an Exception, no handler runs).
DisconnectWaiting(r) ==
    /\ pc[r] \in {"retrieve", "acquire"}
    /\ pc' = [pc EXCEPT ![r] = "cancelled"]
    /\ UNCHANGED <<restVars, queueVars, max_concurrent_requests, request_semaphore, frames, acquired,
                   released, llm_raised, chunk_count, llm_span, gen_outcome, registry>>

\* The client disconnects after a frame was sent, while the request holds a
\* slot (the generator is suspended at a yield): the generators are closed, the generation span's `with` block is left without registering a
\* response span, and the finally block releases the slot.
DisconnectStreaming(r) ==
    /\ HoldsSlot(r)
    /\ frames[r] # <<>>
    /\ close_llm_span(r, "abandoned")
    /\ release_llm_slot(r)
    /\ pc' = [pc EXCEPT ![r] = "cancelled"]
    /\ UNCHANGED <<restVars, queueVars, max_concurrent_requests, frames, acquired,
                   llm_raised, chunk_count, registry>>

\* One step of request r.
StreamStep(r) ==
    \/ Submit(r)
    \/ RetrieveDocuments(r)
    \/ RetrieveNothing(r)
    \/ RetrieveRaises(r)
    \/ AcquireSlot(r)
    \/ GenerationStarts(r)
    \/ GenerationFailsToStart(r)
    \/ InnerExcept(r)
    \/ LLMChunk(r)
    \/ LLMEnds(r)
    \/ LLMRaises(r)
    \/ GenerationCompletes(r)
    \/ GenerationExcept(r)
    \/ References(r)
    \/ ReferencesExcept(r)
    \/ Complete(r)
    \/ DisconnectWaiting(r)
    \/ DisconnectStreaming(r)

NextStream == \E r \in Requests : StreamStep(r)

InitStream == StreamInit /\ QueueInit /\ RestInit

SpecStream == InitStream /\ [][NextStream]_vars


(***************************************************************************)
(* The async job queue.  The store is shared by the API process and the    *)
(* worker processes; every store command is atomic, a sequence of commands *)
(* is not, and keys with a time-to-live vanish when it has passed.         *)
(***************************************************************************)

\* A key exists: it was written and its time-to-live, if any, has not passed.
Live(key) == key.present /\ (key.expire_at = NoExpiry \/ now <= key.expire_at)

\* HSET request:<id> status <status>: sets the field of an existing hash and
\* keeps its time-to-live; on a missing key it creates a hash that holds the
\* status field alone and has no time-to-live.
hset_status(key, status) ==
    IF Live(key)
    THEN [key EXCEPT !.status = status]
    ELSE [present |-> TRUE, status |-> status, meta |-> FALSE, expire_at |-> NoExpiry]

\* HSET issued before the existence check has been made: writes as above.
update_status_write(j, status) ==
    /\ request_key' = [request_key EXCEPT ![j] = hset_status(@, status)]
    /\ status_writes' = [status_writes EXCEPT ![j] = Append(@, status)]

\* What update_request_status is given as `result` in each phase.
result_of(wk) == IF wk.phase = "failed" THEN "worker_error" ELSE wk.result

\* update_request_status has returned: process_request goes on.
after_update(wk) ==
    IF wk.phase = "processing" THEN [wk EXCEPT !.pc = "process"] ELSE IdleWorker

\* A store command raised inside process_request: the `except Exception`
\* branch starts update_request_status(id, "failed", ...); an exception of
\* that call leaves process_request and is caught by the loop of start().
after_raise(wk) ==
    IF wk.phase \in {"processing", "completed"}
    THEN [wk EXCEPT !.pc = "exists", !.phase = "failed"]
    ELSE IdleWorker

\* QueueManager.queue_request: HMSET of the record, EXPIRE 3600, LPUSH.
queue_request(j) ==
    /\ status_writes[j] = <<>>
    /\ request_key' = [request_key EXCEPT ![j] =
           [present |-> TRUE, status |-> "queued", meta |-> TRUE,
            expire_at |-> now + REQUEST_TTL]]
    /\ status_writes' = [status_writes EXCEPT ![j] = <<"queued">>]
    /\ request_queue' = <<j>> \o request_queue
    /\ UNCHANGED <<restVars, streamVars, now, ticks, result_key, worker, redis_failures, poll,
                   pipeline_raised, completed_poll_at>>

\* QueueManager.get_next_request in the loop of LLMWorker.start: BRPOP takes
\* the id at the tail; HGETALL of its record; no record (or a record without
\* the query field) gives None and the id is dropped.
get_next_request(w) ==
    /\ worker[w].pc = "idle"
    /\ request_queue # <<>>
    /\ LET j == request_queue[Len(request_queue)]
       IN  /\ request_queue' = SubSeq(request_queue, 1, Len(request_queue) - 1)
           /\ worker' = [worker EXCEPT ![w] =
                  IF Live(request_key[j]) /\ request_key[j].meta
                  THEN [pc |-> "exists", job |-> j, phase |-> "processing", result |-> "none"]
                  ELSE IdleWorker]
    /\ UNCHANGED <<restVars, streamVars, now, ticks, request_key, result_key, redis_failures, poll,
                   status_writes, pipeline_raised, completed_poll_at>>

\* update_request_status, first command: EXISTS request:<id>; a missing
\* record makes it return without writing.
UpdateExists(w) ==
    /\ worker[w].pc = "exists"
    /\ worker' = [worker EXCEPT ![w] =
           IF Live(request_key[@.job]) THEN [@ EXCEPT !.pc = "hset"] ELSE after_update(@)]
    /\ UNCHANGED <<restVars, streamVars, now, ticks, request_key, result_key, request_queue,
                   redis_failures, poll, status_writes,
                   pipeline_raised, completed_poll_at>>

\* update_request_status, second command: HSET request:<id> status.
UpdateHset(w) ==
    /\ worker[w].pc = "hset"
    /\ update_status_write(worker[w].job, worker[w].phase)
    /\ worker' = [worker EXCEPT ![w] =
           IF @.phase = "processing" THEN after_update(@) ELSE [@ EXCEPT !.pc = "set"]]
    /\ UNCHANGED <<restVars, streamVars, now, ticks, result_key, request_queue,
                   redis_failures, poll,
                   pipeline_raised, completed_poll_at>>

\* update_request_status, third command, when a result is given:
\* SET result:<id> <json> EX 3600.
UpdateSet(w) ==
    /\ worker[w].pc = "set"
    /\ result_key' = [result_key EXCEPT ![worker[w].job] =
           [present |-> TRUE, kind |-> result_of(worker[w]), expire_at |-> now + RESULT_TTL]]
    /\ worker' = [worker EXCEPT ![w] = after_update(@)]
    /\ UNCHANGED <<restVars, streamVars, now, ticks, request_key, request_queue,
                   redis_failures, poll, status_writes,
                   pipeline_raised, completed_poll_at>>

\* A store command of update_request_status raises (connection lost).
RedisCommandRaises(w) ==
    /\ worker[w].pc \in {"exists", "hset", "set"}
    /\ redis_failures < MaxRedisFailures
    /\ redis_failures' = redis_failures + 1
    /\ worker' = [worker EXCEPT ![w] = after_raise(@)]
    /\ UNCHANGED <<restVars, streamVars, now, ticks, request_key, result_key, request_queue,
                   poll, status_writes,
                   pipeline_raised, completed_poll_at>>

\* process_query_async returns the answer of the pipeline.
PipelineSucceeds(w) ==
    /\ worker[w].pc = "process"
    /\ worker' = [worker EXCEPT ![w] =
           [@ EXCEPT !.pc = "exists", !.phase = "completed", !.result = "ask_response"]]
    /\ UNCHANGED <<restVars, streamVars, now, ticks, request_key, result_key, request_queue,
                   redis_failures, poll, status_writes,
                   pipeline_raised, completed_poll_at>>

\* Retrieval, reranking or generation raises: process_query_sync catches the
\* exception and returns {"type": "error", "error": str(e)}; nothing is
\* raised to process_request.
PipelineRaises(w) ==
    /\ worker[w].pc = "process"
    /\ pipeline_raised' = [pipeline_raised EXCEPT ![worker[w].job] = TRUE]
    /\ worker' = [worker EXCEPT ![w] =
           [@ EXCEPT !.pc = "exists", !.phase = "completed", !.result = "error_result"]]
    /\ UNCHANGED <<restVars, streamVars, now, ticks, request_key, result_key, request_queue,
                   redis_failures, poll, status_writes,
                   completed_poll_at>>

\* get_async_status answers: the response is recorded, with whether the GET
\* was issued 3601 seconds or more after the moment an earlier GET of the job
\* returned completed.
respond(j, http, status, has_result, has_error, issued) ==
    /\ poll' = [pc |-> "responded", job |-> j, issued |-> issued, status |-> status,
                http |-> http, has_result |-> has_result, has_error |-> has_error,
                late |-> /\ completed_poll_at[j] # NoExpiry
                         /\ issued >= completed_poll_at[j] + REQUEST_TTL + 1]
    /\ completed_poll_at' =
           IF http = 200 /\ status = "completed" /\ completed_poll_at[j] = NoExpiry
           THEN [completed_poll_at EXCEPT ![j] = now]
           ELSE completed_poll_at

\* GET /api/ask/async/{id}; get_request_status, first command: EXISTS finds
\* no record: status not_found, which get_async_status turns into HTTP 404.
PollNotFound(j) ==
    /\ poll.pc = "idle"
    /\ status_writes[j] # <<>>
    /\ ~Live(request_key[j])
    /\ respond(j, 404, "not_found", FALSE, FALSE, now)
    /\ UNCHANGED <<restVars, streamVars, now, ticks, request_key, result_key, request_queue,
                   worker, redis_failures, status_writes, pipeline_raised>>

\* get_request_status, first command: EXISTS finds the record.
PollExists(j) ==
    /\ poll.pc = "idle"
    /\ status_writes[j] # <<>>
    /\ Live(request_key[j])
    /\ poll' = [IdlePoll EXCEPT !.pc = "hgetall", !.job = j, !.issued = now]
    /\ UNCHANGED <<restVars, streamVars, now, ticks, request_key, result_key, request_queue,
                   worker, redis_failures, status_writes,
                   pipeline_raised, completed_poll_at>>

\* get_request_status, second command: HGETALL; the status field is read
\* ("unknown" when the hash is gone); a status other than completed and
\* failed is answered at once.
PollHgetall ==
    /\ poll.pc = "hgetall"
    /\ LET key == request_key[poll.job]
           status == IF Live(key) THEN key.status ELSE "unknown"
       IN  IF status \in {"completed", "failed"}
           THEN /\ poll' = [poll EXCEPT !.pc = "get", !.status = status]
                /\ UNCHANGED completed_poll_at
           ELSE respond(poll.job, 200, status, FALSE, FALSE, poll.issued)
    /\ UNCHANGED <<restVars, streamVars, now, ticks, request_key, result_key, request_queue,
                   worker, redis_failures, status_writes, pipeline_raised>>

\* get_request_status, third command: GET result:<id>; the blob, when there
\* is one, is put under "result" (completed) or "error" (failed).
PollGet ==
    /\ poll.pc = "get"
    /\ LET blob == Live(result_key[poll.job])
       IN  respond(poll.job, 200, poll.status,
                   blob /\ poll.status = "completed",
                   blob /\ poll.status = "failed", poll.issued)
    /\ UNCHANGED <<restVars, streamVars, now, ticks, request_key, result_key, request_queue,
                   worker, redis_failures, status_writes, pipeline_raised>>

\* The client has the response of get_async_status; it may poll again.
PollReturns ==
    /\ poll.pc = "responded"
    /\ poll' = IdlePoll
    /\ UNCHANGED <<restVars, streamVars, now, ticks, request_key, result_key, request_queue,
                   worker, redis_failures, status_writes,
                   pipeline_raised, completed_poll_at>>

\* Time passes.
Tick(d) ==
    /\ ticks < MaxTicks
    /\ ticks' = ticks + 1
    /\ now' = now + d
    /\ UNCHANGED <<restVars, streamVars, request_key, result_key, request_queue,
                   worker, redis_failures, poll, status_writes,
                   pipeline_raised, completed_poll_at>>

NextQueue ==
    \/ \E j \in Jobs : queue_request(j)
    \/ \E w \in Workers : get_next_request(w)
    \/ \E w \in Workers : UpdateExists(w)
    \/ \E w \in Workers : UpdateHset(w)
    \/ \E w \in Workers : UpdateSet(w)
    \/ \E w \in Workers : RedisCommandRaises(w)
    \/ \E w \in Workers : PipelineSucceeds(w)
    \/ \E w \in Workers : PipelineRaises(w)
    \/ \E j \in Jobs : PollNotFound(j)
    \/ \E j \in Jobs : PollExists(j)
    \/ PollHgetall
    \/ PollGet
    \/ PollReturns
    \/ \E d \in TimeSteps : Tick(d)

InitQueue == QueueInit /\ StreamInit /\ RestInit /\ max_concurrent_requests = 1

SpecQueue == InitQueue /\ [][NextQueue]_vars

(***************************************************************************)
(* Scenario S3 of the specification: a freshly started process with        *)
(* LLM_MAX_CONCURRENT=2 that serves three concurrent requests.             *)
(***************************************************************************)
S3Requests == {1, 2, 3}

InitS3 == InitStream /\ max_concurrent_requests = 2

NextS3 == \E r \in S3Requests : StreamStep(r)

SpecS3 == InitS3 /\ [][NextS3]_vars

(***************************************************************************)
(* Properties of the streaming path.                                       *)
(***************************************************************************)
\* Number of frames of a response that belong to a set of frame kinds.
CountFrames(r, kinds) == Cardinality({i \in DOMAIN frames[r] : frames[r][i] \in kinds})

LastFrame(r) == frames[r][Len(frames[r])]

\* Requests for which acquire_llm_slot has returned.
Entered == {r \in Requests : acquired[r] > 0}

\* C1: at every instant the number of requests that hold an LLM slot
\* (acquired and not yet released) is at most LLM_MAX_CONCURRENT.
C1_InFlightWithinLimit == Cardinality(InFlight) <= max_concurrent_requests

\* C2: every finished response stream contains exactly one terminal event
\* (one `complete` or one `error`), never both and never two errors.
C2_ExactlyOneTerminalEvent ==
    \A r \in Requests : pc[r] = "done" => CountFrames(r, TerminalFrames) = 1

\* C5: for every closed generation span - closed normally, by an exception
\* or because the client went away - the registry holds a record under
\* (session_id, qa_id + "_response").
C5_ClosedGenerationHasResponseRecord ==
    \A r \in Requests : llm_span[r] = "closed" => registry[r]["qa_id_response"] # "none"

\* C6: if the LLM adapter raised while streaming, the finished response ends
\* with the error event "An error occurred while processing your request"
\* and holds no `complete` event.
C6_AdapterErrorEndsWithErrorEvent ==
    \A r \in Requests :
        (llm_raised[r] /\ pc[r] = "done") =>
            /\ LastFrame(r) = "error_processing"
            /\ CountFrames(r, {"complete"}) = 0

\* C7: a response that ends with `complete` consists of zero or more chunk
\* frames, then exactly one `references` frame, then the `complete` frame.
C7_ChunksThenReferencesThenComplete ==
    \A r \in Requests :
        (frames[r] # <<>> /\ LastFrame(r) = "complete") =>
            /\ Len(frames[r]) >= 2
            /\ frames[r][Len(frames[r]) - 1] = "references"
            /\ \A i \in 1..(Len(frames[r]) - 2) : frames[r][i] \in ChunkFrames

\* C8: with LLM_MAX_CONCURRENT=2 and three concurrent requests, at most two
\* are in generation at a time, and all three have entered generation only
\* when one that entered has released its slot again.
C8_ThirdWaitsForRelease ==
    /\ Cardinality(InFlight) <= 2
    /\ Entered = S3Requests =>
           \E r \in Entered : released[r] > 0 /\ ~HoldsSlot(r)

\* C8 witness: the third request is in generation, next to one of the first
\* two, after the other one released its slot.
C8_Witness ==
    /\ Entered = S3Requests
    /\ Cardinality(InFlight) = 2
    /\ request_semaphore = 0

(***************************************************************************)
(* Properties of the async job queue.                                      *)
(***************************************************************************)
IsPrefix(s, t) == Len(s) <= Len(t) /\ \A i \in DOMAIN s : s[i] = t[i]

\* The job is neither waiting in the queue nor in the hands of a worker.
Finished(j) ==
    /\ status_writes[j] # <<>>
    /\ \A i \in DOMAIN request_queue : request_queue[i] # j
    /\ \A w \in Workers : worker[w].job # j

\* C3: the statuses written to a job's record form a prefix of
\* queued -> processing -> (completed | failed).
C3_StatusSequenceIsMonotonic ==
    \A j \in Jobs :
        \/ IsPrefix(status_writes[j], <<"queued", "processing", "completed">>)
        \/ IsPrefix(status_writes[j], <<"queued", "processing", "failed">>)

\* C4: a job whose pipeline raised is never given the status completed, and
\* once the worker is done with it its record, while it lasts, says failed.
C4_PipelineExceptionFailsJob ==
    \A j \in Jobs :
        pipeline_raised[j] =>
            /\ \A i \in DOMAIN status_writes[j] : status_writes[j][i] # "completed"
            /\ (Finished(j) /\ Live(request_key[j])) => request_key[j].status = "failed"

\* C9: a GET that answers completed carries the stored result, and a GET
\* that answers failed carries the stored error.
C9_TerminalStatusCarriesBlob ==
    (poll.pc = "responded" /\ poll.http = 200) =>
        /\ poll.status = "completed" => poll.has_result
        /\ poll.status = "failed" => poll.has_error

\* C10: a GET issued 3601 seconds or more after a GET of the same job that
\* answered completed is answered with HTTP 404.
C10_NotFoundAfterRetention ==
    (poll.pc = "responded" /\ poll.late) => poll.http = 404


(***************************************************************************)
(* POST /api/feedback: submit_feedback, associate_feedback_with_spans,     *)
(* find_qa_span_id_with_retry and submit_span_annotation.                  *)
(***************************************************************************)
\* find_qa_span_id_with_retry: attempts, and the delays between them (ms).
MAX_RETRIES == 3
flat_delays == <<50, 50, 50>>

delays ==
    <<50, 100, 200>>

\* Span ids under which the request registered its spans (decimal strings in
\* the registry).
SpanIds == [qa_id |-> 26, qa_id_response |-> 43]

Sentiments == {"none", "positive", "negative", "other"}
Ratings == {0, 1, 5}

\* f"{qa_id}_response", the key tried first; plain_key is the key itself.
plain_key(k) == k

response_key(k) == IF k = "qa_id" THEN "qa_id_response" ELSE k

\* format(span_id_int, '016x'): the span id as 16 hexadecimal digits, most
\* significant first; from_hex reads such a string back.
RECURSIVE to_hex(_, _)
to_hex(n, width) ==
    IF width = 0 THEN <<>> ELSE Append(to_hex(n \div 16, width - 1), n % 16)

format_span_id(span) == to_hex(span, 16)

RECURSIVE from_hex(_)
from_hex(digits) ==
    IF digits = <<>> THEN 0
    ELSE 16 * from_hex(SubSeq(digits, 1, Len(digits) - 1)) + digits[Len(digits)]

\* submit_span_annotation, annotation_data: the relevance annotation, then
\* the thumbs up/down annotation; an unknown sentiment gives none.
relevance_annotation(fb, span) ==
    IF fb.relevance # 0
    THEN <<[label |-> "relevance", score |-> fb.relevance,
            span_id |-> format_span_id(span)]>>
    ELSE <<>>

sentiment_annotation(fb, span) ==
    IF fb.sentiment = "positive"
    THEN <<[label |-> "thumbs-up", score |-> 1, span_id |-> format_span_id(span)]>>
    ELSE IF fb.sentiment = "negative"
    THEN <<[label |-> "thumbs-down", score |-> 0, span_id |-> format_span_id(span)]>>
    ELSE <<>>

annotation_data(fb, span) == relevance_annotation(fb, span) \o sentiment_annotation(fb, span)

\* The FeedbackResponse status for the outcome of the association; the
\* variant answers success whatever the outcome.
feedback_response_always_success(success) == "success"

feedback_response(success) == IF success THEN "success" ELSE "error"

FeedbackInit ==
    /\ fb_enabled \in BOOLEAN
    /\ fb_registry \in {f \in [FeedbackKeys -> {0, 26, 43}] :
                           \A k \in FeedbackKeys : f[k] \in {0, SpanIds[k]}}
    /\ fb_feedback \in [sentiment : Sentiments, relevance : Ratings]
    /\ fb_pc = "idle"
    /\ fb_key = "none"
    /\ fb_attempt = 0
    /\ fb_sleeps = <<>>
    /\ fb_queries = <<>>
    /\ fb_span = 0
    /\ fb_posted = <<>>
    /\ fb_status = "none"

\* submit_feedback up to the first lookup: with telemetry disabled for the
\* request it answers success at once and records nothing.
SubmitFeedback ==
    /\ fb_pc = "idle"
    /\ IF fb_enabled
       THEN /\ fb_pc' = "lookup"
            /\ fb_key' = response_key("qa_id")
            /\ UNCHANGED fb_status
       ELSE /\ fb_pc' = "done"
            /\ fb_status' = "success"
            /\ UNCHANGED fb_key
    /\ UNCHANGED <<notFeedbackVars, fb_enabled, fb_registry, fb_feedback,
                   fb_attempt, fb_sleeps, fb_queries, fb_span, fb_posted>>

\* One attempt of find_qa_span_id_with_retry finds the span.
LookupHit ==
    /\ fb_pc = "lookup"
    /\ fb_registry[fb_key] # 0
    /\ fb_queries' = Append(fb_queries, fb_key)
    /\ fb_span' = fb_registry[fb_key]
    /\ fb_pc' = "annotate"
    /\ UNCHANGED <<notFeedbackVars, fb_enabled, fb_registry, fb_feedback,
                   fb_key, fb_attempt, fb_sleeps, fb_posted, fb_status>>

\* An attempt other than the last finds nothing: sleep, then try again.
LookupMissSleep ==
    /\ fb_pc = "lookup"
    /\ fb_registry[fb_key] = 0
    /\ fb_attempt < MAX_RETRIES - 1
    /\ fb_queries' = Append(fb_queries, fb_key)
    /\ fb_sleeps' = Append(fb_sleeps, delays[fb_attempt + 1])
    /\ fb_attempt' = fb_attempt + 1
    /\ UNCHANGED <<notFeedbackVars, fb_enabled, fb_registry, fb_feedback,
                   fb_pc, fb_key, fb_span, fb_posted, fb_status>>

\* The last attempt for the response key finds nothing:
\* associate_feedback_with_spans falls back to the plain qa_id key.
ResponseLookupFails ==
    /\ fb_pc = "lookup"
    /\ fb_registry[fb_key] = 0
    /\ fb_attempt = MAX_RETRIES - 1
    /\ fb_key = response_key("qa_id")
    /\ fb_key # plain_key("qa_id")
    /\ fb_queries' = Append(fb_queries, fb_key)
    /\ fb_key' = plain_key("qa_id")
    /\ fb_attempt' = 0
    /\ UNCHANGED <<notFeedbackVars, fb_enabled, fb_registry, fb_feedback,
                   fb_pc, fb_sleeps, fb_span, fb_posted, fb_status>>

\* The last attempt for the plain key finds nothing: the association returns
\* False and submit_feedback answers error.
QaLookupFails ==
    /\ fb_pc = "lookup"
    /\ fb_registry[fb_key] = 0
    /\ fb_attempt = MAX_RETRIES - 1
    /\ fb_key = plain_key("qa_id")
    /\ fb_queries' = Append(fb_queries, fb_key)
    /\ fb_pc' = "done"
    /\ fb_status' = feedback_response(FALSE)
    /\ UNCHANGED <<notFeedbackVars, fb_enabled, fb_registry, fb_feedback,
                   fb_key, fb_attempt, fb_sleeps, fb_span, fb_posted>>

\* submit_span_annotation with nothing to annotate returns False.
AnnotateNothing ==
    /\ fb_pc = "annotate"
    /\ annotation_data(fb_feedback, fb_span) = <<>>
    /\ fb_pc' = "done"
    /\ fb_status' = feedback_response(FALSE)
    /\ UNCHANGED <<notFeedbackVars, fb_enabled, fb_registry, fb_feedback,
                   fb_key, fb_attempt, fb_sleeps, fb_queries, fb_span, fb_posted>>

\* submit_span_annotation posts the annotations and the backend answers 200.
PostAccepted ==
    /\ fb_pc = "annotate"
    /\ annotation_data(fb_feedback, fb_span) # <<>>
    /\ fb_posted' = annotation_data(fb_feedback, fb_span)
    /\ fb_pc' = "done"
    /\ fb_status' = feedback_response(TRUE)
    /\ UNCHANGED <<notFeedbackVars, fb_enabled, fb_registry, fb_feedback,
                   fb_key, fb_attempt, fb_sleeps, fb_queries, fb_span>>

\* submit_span_annotation posts the annotations and the backend answers
\* another status, or the post raises: it returns False.
PostRejected ==
    /\ fb_pc = "annotate"
    /\ annotation_data(fb_feedback, fb_span) # <<>>
    /\ fb_posted' = annotation_data(fb_feedback, fb_span)
    /\ fb_pc' = "done"
    /\ fb_status' = feedback_response(FALSE)
    /\ UNCHANGED <<notFeedbackVars, fb_enabled, fb_registry, fb_feedback,
                   fb_key, fb_attempt, fb_sleeps, fb_queries, fb_span>>

\* A record of the span registry reaches its expiry while the feedback
\* request is being served.
RegistryExpires(k) ==
    /\ fb_pc \in {"lookup", "annotate"}
    /\ fb_registry[k] # 0
    /\ fb_registry' = [fb_registry EXCEPT ![k] = 0]
    /\ UNCHANGED <<notFeedbackVars, fb_enabled, fb_feedback, fb_pc, fb_key,
                   fb_attempt, fb_sleeps, fb_queries, fb_span, fb_posted, fb_status>>

NextFeedback ==
    \/ SubmitFeedback
    \/ LookupHit
    \/ LookupMissSleep
    \/ ResponseLookupFails
    \/ QaLookupFails
    \/ AnnotateNothing
    \/ PostAccepted
    \/ PostRejected
    \/ \E k \in FeedbackKeys : RegistryExpires(k)

InitFeedback ==
    /\ FeedbackInit
    /\ RestIdleExcept("feedback")
    /\ StreamInit /\ QueueInit /\ max_concurrent_requests = 1

SpecFeedback == InitFeedback /\ [][NextFeedback]_vars

(***************************************************************************)
(* Properties of feedback association.                                     *)
(***************************************************************************)
\* C11 as stated: the answer is success only if a lookup found a span and
\* the feedback was attached to it; when no span was found it is error.
C11_SuccessOnlyIfSpanFound ==
    fb_pc = "done" =>
        /\ fb_status = "success" => (fb_span # 0 /\ fb_posted # <<>>)
        /\ fb_span = 0 => fb_status = "error"

\* C11 amended: that holds for the requests for which telemetry is enabled.
C11_SuccessOnlyIfSpanFoundWhenEnabled ==
    (fb_pc = "done" /\ fb_enabled) =>
        /\ fb_status \in {"success", "error"}
        /\ fb_status = "success" =>
               /\ fb_span \in {SpanIds[k] : k \in FeedbackKeys}
               /\ fb_posted # <<>>
               /\ \A i \in DOMAIN fb_posted : from_hex(fb_posted[i].span_id) = fb_span
        /\ fb_span = 0 => fb_status = "error"

\* C11 witness: the response lookup missed, the fallback lookup found the
\* qa_id span and the feedback went to it.
C11_Witness ==
    /\ fb_pc = "done"
    /\ fb_enabled
    /\ fb_status = "success"
    /\ fb_span = SpanIds["qa_id"]
    /\ Len(fb_queries) = MAX_RETRIES + 1

\* The request carries sentiment positive and relevance 5 and the response
\* span of its qa_id is in the registry.
PositiveFiveWithResponseSpan ==
    /\ fb_pc = "done"
    /\ fb_feedback = [sentiment |-> "positive", relevance |-> 5]
    /\ fb_registry["qa_id_response"] # 0

\* The registry was asked for qa_id_response first, and what was sent is one
\* relevance annotation of score 5 and one thumbs-up annotation of score 1,
\* both naming the span stored under qa_id_response.
AnnotatedResponseSpan ==
    /\ fb_queries # <<>>
    /\ fb_queries[1] = "qa_id_response"
    /\ Len(fb_posted) = 2
    /\ \E i, j \in DOMAIN fb_posted :
           /\ fb_posted[i].label = "thumbs-up" /\ fb_posted[i].score = 1
           /\ fb_posted[j].label = "relevance" /\ fb_posted[j].score = 5
    /\ \A i \in DOMAIN fb_posted :
           /\ from_hex(fb_posted[i].span_id) = SpanIds["qa_id_response"]
           /\ from_hex(fb_posted[i].span_id) # SpanIds["qa_id"]

\* C12 as stated: feedback {positive, 5} for a qa_id whose response span is
\* registered is annotated on that span.
C12_FeedbackGoesToResponseSpan == PositiveFiveWithResponseSpan => AnnotatedResponseSpan

\* C12 amended: it is, when telemetry is enabled for the feedback request.
C12_FeedbackGoesToResponseSpanWhenEnabled ==
    (PositiveFiveWithResponseSpan /\ fb_enabled) => AnnotatedResponseSpan

\* C12 witness: both spans are registered and the annotations were sent.
C12_Witness ==
    /\ PositiveFiveWithResponseSpan
    /\ fb_enabled
    /\ fb_registry["qa_id"] # 0
    /\ fb_status = "success"
    /\ Len(fb_posted) = 2

-----------------------------------------------------------------------------
(* The universal prompt cache (modules/prompt_cache.py).  A Python string is *)
(* the sequence of its pieces, the empty string the empty sequence; the      *)
(* sha256 digest of _create_cache_key is taken to be injective, so a key is  *)
(* the data it is computed from.  Time is counted in minutes.                *)

MaxCalls == 3
MaxCacheTicks == 2

\* PROMPT_CACHE_TTL defaults to "5m".
default_ttl_minutes == 5

CacheTimeSteps == {1, default_ttl_minutes}

SystemPrompts == {<<"You are ATLAS.">>, <<"You are a historian.">>}
Contexts == {<<>>, <<"[1] Hansard, 1901">>}
Providers == {"OpenAI"}
Models == {"GPT-4o"}

\* str.lower() on the provider and model names in use.
lower(s) ==
    CASE s = "OpenAI" -> "openai"
      [] s = "GPT-4o" -> "gpt-4o"
      [] OTHER -> s

\* _create_cache_key: the flags decide which components enter the key.
create_cache_key(system_prompt, context, provider, model) ==
    [system_prompt |-> IF cache_system THEN system_prompt ELSE <<>>,
     context |-> IF cache_context THEN context ELSE <<>>,
     provider |-> lower(provider),
     model |-> lower(model)]

\* _is_expired, with a strict comparison as in the source.  The variant
\* below it compares with >= instead.
is_expired_inclusive(entry) ==
    cache_now >= entry.last_used + entry.ttl_minutes
is_expired(entry) ==
    cache_now > entry.last_used + entry.ttl_minutes

\* _cleanup_expired.  The variant above it removes nothing.
cleanup_nothing(c) == c
cleanup_expired(c) == {entry \in c : ~is_expired(entry)}

\* _build_formatted_prompt
build_formatted_prompt(system_prompt, context) ==
    IF context # <<>>
    THEN system_prompt \o <<"\n\nContext information is below.\n">>
             \o context \o <<"\n\n">>
    ELSE system_prompt

\* get_cached_prompt: a hit refreshes last_used, counts the hit and rebuilds
\* the prompt from the stored entry.
get_cached_prompt(c, system_prompt, context, provider, model) ==
    IF ~cache_enabled
    THEN [hit |-> FALSE, prompt |-> <<>>, cache |-> c]
    ELSE LET cache_key == create_cache_key(system_prompt, context, provider, model)
             live == cleanup_expired(c)
         IN  IF \E e \in live : e.prompt_hash = cache_key
             THEN LET entry == CHOOSE e \in live : e.prompt_hash = cache_key
                      used == [entry EXCEPT !.last_used = cache_now,
                                            !.hit_count = @ + 1]
                  IN  [hit |-> TRUE,
                       prompt |-> build_formatted_prompt(entry.system_prompt,
                                                         entry.context),
                       cache |-> (live \ {entry}) \cup {used}]
             ELSE [hit |-> FALSE, prompt |-> <<>>, cache |-> live]

\* cache_prompt: stores the components the flags allow, overwriting the key.
cache_prompt(c, system_prompt, context, provider, model) ==
    IF ~cache_enabled
    THEN c
    ELSE LET cache_key == create_cache_key(system_prompt, context, provider, model)
             entry == [prompt_hash |-> cache_key,
                       system_prompt |-> IF cache_system THEN system_prompt ELSE <<>>,
                       context |-> IF cache_context THEN context ELSE <<>>,
                       last_used |-> cache_now,
                       hit_count |-> 0,
                       ttl_minutes |-> default_ttl_minutes]
         IN  {e \in c : e.prompt_hash # cache_key} \cup {entry}

\* build_optimized_prompt
build_optimized_prompt(c, system_prompt, context, provider, model) ==
    LET cached_result == get_cached_prompt(c, system_prompt, context, provider, model)
    IN  IF cached_result.hit
        THEN [formatted_prompt |-> cached_result.prompt,
              cache_hit |-> TRUE,
              cache |-> cached_result.cache]
        ELSE [formatted_prompt |-> build_formatted_prompt(system_prompt, context),
              cache_hit |-> FALSE,
              cache |-> cache_prompt(cached_result.cache, system_prompt, context,
                                     provider, model)]

RECURSIVE sum_hit_count(_)
sum_hit_count(c) ==
    IF c = {} THEN 0
    ELSE LET e == CHOOSE x \in c : TRUE
         IN  e.hit_count + sum_hit_count(c \ {e})

\* get_cache_stats: cleans up, then counts.
get_cache_stats(c) ==
    LET live == cleanup_expired(c)
    IN  [total_entries |-> Cardinality(live),
         total_hits |-> sum_hit_count(live),
         cache |-> live]

CacheInit ==
    /\ cache_enabled \in BOOLEAN
    /\ cache_system \in BOOLEAN
    /\ cache_context \in BOOLEAN
    /\ cache = {}
    /\ cache_now = 0
    /\ cache_ticks = 0
    /\ cache_calls = <<>>

\* One request's use of the cache: optimize_prompt_for_provider, then a
\* reading of the statistics.  expired_others counts the entries of other
\* keys that are past their TTL when the call starts.
OptimizePrompt(system_prompt, context, provider, model) ==
    /\ Len(cache_calls) < MaxCalls
    /\ LET built == build_optimized_prompt(cache, system_prompt, context,
                                           provider, model)
           stats == get_cache_stats(built.cache)
           cache_key == create_cache_key(system_prompt, context, provider, model)
       IN  /\ cache' = stats.cache
           /\ cache_calls' = Append(cache_calls,
                  [system_prompt |-> system_prompt,
                   context |-> context,
                   provider |-> provider,
                   model |-> model,
                   formatted_prompt |-> built.formatted_prompt,
                   cache_hit |-> built.cache_hit,
                   at |-> cache_now,
                   expired_others |->
                       Cardinality({e \in cache : is_expired(e)
                                                  /\ e.prompt_hash # cache_key}),
                   total_entries |-> stats.total_entries,
                   total_hits |-> stats.total_hits])
    /\ UNCHANGED <<notCacheVars, cache_enabled, cache_system, cache_context,
                   cache_now, cache_ticks>>

\* Time passes between calls.
CacheTick(d) ==
    /\ cache_ticks < MaxCacheTicks
    /\ cache_now' = cache_now + d
    /\ cache_ticks' = cache_ticks + 1
    /\ UNCHANGED <<notCacheVars, cache_enabled, cache_system, cache_context,
                   cache, cache_calls>>

NextCache ==
    \/ \E sp \in SystemPrompts, ctx \in Contexts, p \in Providers, m \in Models :
           OptimizePrompt(sp, ctx, p, m)
    \/ \E d \in CacheTimeSteps : CacheTick(d)

InitCache ==
    /\ CacheInit
    /\ RestIdleExcept("cache")
    /\ StreamInit /\ QueueInit /\ max_concurrent_requests = 1

SpecCache == InitCache /\ [][NextCache]_vars

SameArguments(a, b) ==
    /\ a.system_prompt = b.system_prompt
    /\ a.context = b.context
    /\ a.provider = b.provider
    /\ a.model = b.model

\* C13: for any setting of the cache flags, two successive
\* build_optimized_prompt calls with the same arguments return byte-identical
\* prompts.
C13_SuccessiveCallsReturnSamePrompt ==
    \A i \in 1..(Len(cache_calls) - 1) :
        SameArguments(cache_calls[i], cache_calls[i + 1])
            => cache_calls[i + 1].formatted_prompt = cache_calls[i].formatted_prompt

WithinTTL(a, b) == b.at <= a.at + default_ttl_minutes

SecondIsHit(a, b) ==
    /\ b.cache_hit
    /\ b.total_hits = a.total_hits + 1
    /\ b.total_entries = a.total_entries

\* C14 as stated: when two requests with identical system prompt, context,
\* provider and model follow one another within the TTL, the second is a
\* cache hit; total_hits grows by exactly 1 and total_entries is unchanged
\* between the end of the first call and the end of the second.
C14_SecondIdenticalRequestIsHit ==
    \A i \in 1..(Len(cache_calls) - 1) :
        (SameArguments(cache_calls[i], cache_calls[i + 1])
         /\ WithinTTL(cache_calls[i], cache_calls[i + 1]))
            => SecondIsHit(cache_calls[i], cache_calls[i + 1])

\* C14 amended: the same, when caching is enabled and no entry of another
\* key has passed its TTL by the time of the second call.
C14_SecondIdenticalRequestIsHitWhenOthersLive ==
    \A i \in 1..(Len(cache_calls) - 1) :
        (/\ cache_enabled
         /\ SameArguments(cache_calls[i], cache_calls[i + 1])
         /\ WithinTTL(cache_calls[i], cache_calls[i + 1])
         /\ cache_calls[i + 1].expired_others = 0)
            => SecondIsHit(cache_calls[i], cache_calls[i + 1])

\* A second identical request arrives exactly one TTL after the first, while
\* another key's entry is live, and is served from the cache.
C14_Witness ==
    /\ cache_enabled
    /\ Len(cache_calls) = 3
    /\ ~SameArguments(cache_calls[1], cache_calls[2])
    /\ SameArguments(cache_calls[2], cache_calls[3])
    /\ cache_calls[3].at = cache_calls[2].at + default_ttl_minutes
    /\ cache_calls[3].expired_others = 0
    /\ cache_calls[3].cache_hit
    /\ cache_calls[3].total_entries = 2

-----------------------------------------------------------------------------
(* Reciprocal rank fusion (modules/hybrid_search.py).  The float scores are  *)
(* fixed-point numbers here: 1.0 / x is 10^9 \div x, which tells apart any   *)
(* two sums that differ for the ranks these lists can hold, and two sums of  *)
(* the same two terms are equal, as they are in floating point.              *)

MaxTopK == 3

\* rrf_merge(..., k=60, ...), the value DarwinRetriever passes as well.
RRF_K == 60

\* d_rank.get(doc_id, 1_000_000)
MISSING_RANK == 1000000

DocIds == {"A", "B", "C"}

\* The ranked lists a search hands to rrf_merge: distinct ids, each paired
\* with its position as the score (_dense_search_ids, _bm25_search_ids).
RankedLists ==
    UNION {{[i \in 1..n |-> <<ids[i], i - 1>>] :
                ids \in {f \in [1..n -> DocIds] :
                            \A i, j \in 1..n : i # j => f[i] # f[j]}} :
           n \in 0..Cardinality(DocIds)}

\* to_rank_map: doc_id -> rank, the position in the list; a later
\* occurrence of an id overwrites an earlier one.
to_rank_map(items) ==
    [doc_id \in {items[i][1] : i \in 1..Len(items)} |->
        (CHOOSE i \in 1..Len(items) :
            /\ items[i][1] = doc_id
            /\ \A j \in 1..Len(items) : items[j][1] = doc_id => j <= i) - 1]

\* dict.get(doc_id, 1_000_000)
rank_get(rank_map, doc_id) ==
    IF doc_id \in DOMAIN rank_map THEN rank_map[doc_id] ELSE MISSING_RANK

\* score = 1.0 / (k + r_dense) + 1.0 / (k + r_lex).  The variant below it
\* gives every document the same score.
rrf_score_flat(k, r_dense, r_lex) == 0
rrf_score(k, r_dense, r_lex) ==
    (10^9 \div (k + r_dense)) + (10^9 \div (k + r_lex))

\* The orders in which `for doc_id in all_ids` can visit a set of strings.
IterationOrders(all_ids) ==
    {f \in [1..Cardinality(all_ids) -> all_ids] :
        \A i, j \in 1..Cardinality(all_ids) : i # j => f[i] # f[j]}

\* fused.sort(key=score, reverse=True) goes by descending score.  The
\* variant below it goes by ascending score.
sorts_before_ascending(score_a, score_b) == score_a < score_b
sorts_before(score_a, score_b) == score_a > score_b

\* rrf_merge, for one iteration order of all_ids: the stable sort keeps that
\* order among equal scores; the result is fused[:top_k].
rrf_merge(dense, lexical, k, top_k, visit) ==
    LET d_rank == to_rank_map(dense)
        l_rank == to_rank_map(lexical)
        n == Len(visit)
        score(doc_id) == rrf_score(k, rank_get(d_rank, doc_id),
                                      rank_get(l_rank, doc_id))
        place(i) == 1 + Cardinality({j \in 1..n :
                        \/ sorts_before(score(visit[j]), score(visit[i]))
                        \/ (score(visit[j]) = score(visit[i]) /\ j < i)})
        fused == [p \in 1..n |-> visit[CHOOSE i \in 1..n : place(i) = p]]
    IN  SubSeq(fused, 1, IF top_k < n THEN top_k ELSE n)

all_ids(dense, lexical) ==
    DOMAIN to_rank_map(dense) \cup DOMAIN to_rank_map(lexical)

RrfInit ==
    /\ rrf_dense \in RankedLists
    /\ rrf_lexical \in RankedLists
    /\ rrf_top_k \in 0..MaxTopK
    /\ rrf_result = <<>>
    /\ rrf_pc = "ready"

\* The call rrf_merge(dense, lexical, k=60, top_k).
RrfMerge(visit) ==
    /\ rrf_pc = "ready"
    /\ rrf_result' = rrf_merge(rrf_dense, rrf_lexical, RRF_K, rrf_top_k, visit)
    /\ rrf_pc' = "done"
    /\ UNCHANGED <<notRrfVars, rrf_dense, rrf_lexical, rrf_top_k>>

NextRrf == \E visit \in IterationOrders(all_ids(rrf_dense, rrf_lexical)) : RrfMerge(visit)

InitRrf ==
    /\ RrfInit
    /\ RestIdleExcept("rrf")
    /\ StreamInit /\ QueueInit /\ max_concurrent_requests = 1

SpecRrf == InitRrf /\ [][NextRrf]_vars

Ids(items) == [i \in 1..Len(items) |-> items[i][1]]

SeededLists ==
    /\ rrf_pc = "done"
    /\ Ids(rrf_dense) = <<"A", "B", "C">>
    /\ Ids(rrf_lexical) = <<"C", "B", "A">>
    /\ rrf_top_k = 3

\* C18 as stated: rrf_merge on dense [A,B,C] and lexical [C,B,A] (0-based
\* ranks, constant 60, top 3) returns B first: [B, C, A] or [B, A, C].
C18_SeededListsReturnBFirst ==
    SeededLists => rrf_result \in {<<"B", "C", "A">>, <<"B", "A", "C">>}

\* C18 amended: on those lists rrf_merge returns B last, after A and C in
\* either order: [A, C, B] or [C, A, B].
C18_SeededListsReturnBLast ==
    SeededLists => rrf_result \in {<<"A", "C", "B">>, <<"C", "A", "B">>}

\* The seeded lists were merged and C came out ahead of A.
C18_Witness ==
    SeededLists /\ rrf_result = <<"C", "A", "B">>

\* C19: for any ranked list L of distinct ids and any k, rrf_merge(L, L)
\* with top_k = k returns exactly the first k elements of L, in L's order.
C19_IdenticalListsYieldPrefix ==
    (rrf_pc = "done" /\ rrf_dense = rrf_lexical)
        => rrf_result = SubSeq(Ids(rrf_dense), 1,
                               IF rrf_top_k < Len(rrf_dense)
                               THEN rrf_top_k ELSE Len(rrf_dense))

\* A three-element list merged with itself, cut to its first two elements.
C19_Witness ==
    /\ rrf_pc = "done"
    /\ rrf_dense = rrf_lexical
    /\ Len(rrf_dense) = 3
    /\ rrf_top_k = 2
    /\ Len(rrf_result) = 2

-----------------------------------------------------------------------------
(* Retrieval for /api/ask/stream: the request's corpus_filter is validated   *)
(* (app.py), handed to the configured retriever in its config                *)
(* (modules/document_retrieval.py), and the retriever searches.  The vector  *)
(* store ranks by embedding distance, which is any order here; its filter    *)
(* argument keeps the documents whose metadata equal the filter.             *)

MaxK == 2

HansardCorpora == {"1901_au", "1901_nz"}
DarwinCorpora == {"darwin_letters"}
RequestedFilters == {"all", "1901_au", "1901_nz", "1901_ie"}

\* ask_stream: a corpus_filter outside the accepted values becomes "all".
validated_corpus_filter(corpus_filter) ==
    IF corpus_filter \in {"all", "1901_au", "1901_nz", "1901_uk"}
    THEN corpus_filter
    ELSE "all"

\* supports_corpus_filtering of the two retrievers.
supports_corpus_filtering(retriever) == retriever = "hansard"

\* HansardRetriever.invoke: filter_dict is {"corpus": corpus_filter} unless
\* the filter is "all"; "none" stands for None.  The variant below it never
\* builds a filter.
hansard_filter_dict_none(corpus_filter) == "none"
hansard_filter_dict(corpus_filter) ==
    IF corpus_filter # "all" THEN corpus_filter ELSE "none"

\* Document(page_content, metadata) of a stored document.
Document(doc_id) == [id |-> doc_id, corpus |-> ret_corpus[doc_id]]

\* vector_store.similarity_search(query, k, filter): the k best of the
\* documents that pass the filter, in the order `ranked` gives them.
similarity_search(ranked, k, corpus) ==
    LET passing == SelectSeq(Ids(ranked),
                             LAMBDA d : corpus = "none" \/ ret_corpus[d] = corpus)
    IN  [i \in 1..(IF k < Len(passing) THEN k ELSE Len(passing)) |->
            Document(passing[i])]

\* _materialize_docs_by_ids with the filter _build_filter_dict makes when no
\* direction or time period is asked for: every id of the sidecar is kept.
materialize_docs_by_ids(ids) == [i \in 1..Len(ids) |-> Document(ids[i])]

\* A ranking of the whole store.
FullRankings == {r \in RankedLists : Len(r) = Cardinality(DocIds)}

RetrievalInit ==
    /\ ret_retriever \in {"hansard", "darwin"}
    /\ ret_corpus \in [DocIds -> IF ret_retriever = "hansard"
                                 THEN HansardCorpora ELSE DarwinCorpora]
    /\ ret_search_type \in IF ret_retriever = "hansard"
                           THEN {"similarity"} ELSE {"similarity", "hybrid"}
    /\ ret_request \in RequestedFilters
    /\ ret_k \in 1..MaxK
    /\ ret_documents = <<>>
    /\ ret_pc = "ready"

\* ask_stream with HansardRetriever configured: validation, then
\* retrieve_documents_with_telemetry -> HansardRetriever.invoke.
HansardInvoke(dense_ranked) ==
    /\ ret_pc = "ready"
    /\ ret_retriever = "hansard"
    /\ ret_documents' = similarity_search(dense_ranked, ret_k,
           hansard_filter_dict(validated_corpus_filter(ret_request)))
    /\ ret_pc' = "done"
    /\ UNCHANGED <<notRetrievalVars, ret_retriever, ret_corpus, ret_search_type,
                   ret_request, ret_k>>

\* ask_stream with DarwinRetriever configured: invoke reads direction_filter
\* and time_period_filter from the config and never corpus_filter.
DarwinInvoke(dense_ranked, bm25_ranked, visit) ==
    /\ ret_pc = "ready"
    /\ ret_retriever = "darwin"
    /\ visit \in IterationOrders(all_ids(dense_ranked, bm25_ranked))
    /\ ret_documents' =
           IF ret_search_type = "hybrid"
           THEN materialize_docs_by_ids(
                    rrf_merge(dense_ranked, bm25_ranked, RRF_K, ret_k, visit))
           ELSE similarity_search(dense_ranked, ret_k, "none")
    /\ ret_pc' = "done"
    /\ UNCHANGED <<notRetrievalVars, ret_retriever, ret_corpus, ret_search_type,
                   ret_request, ret_k>>

NextRetrieval ==
    \/ \E dense_ranked \in FullRankings : HansardInvoke(dense_ranked)
    \/ \E dense_ranked \in FullRankings, bm25_ranked \in FullRankings,
          visit \in IterationOrders(DocIds) :
           DarwinInvoke(dense_ranked, bm25_ranked, visit)

InitRetrieval ==
    /\ RetrievalInit
    /\ RestIdleExcept("retrieval")
    /\ StreamInit /\ QueueInit /\ max_concurrent_requests = 1

SpecRetrieval == InitRetrieval /\ [][NextRetrieval]_vars

AllFromCorpus(documents, corpus) ==
    \A i \in 1..Len(documents) : documents[i].corpus = corpus

\* C15 as stated: for any request with corpus_filter X other than "all",
\* every document retrieval returns has metadata.corpus equal to X,
\* whichever retriever is configured.
C15_DocumentsMatchCorpusFilter ==
    (ret_pc = "done" /\ ret_request # "all")
        => AllFromCorpus(ret_documents, ret_request)

\* C15 amended: the same for an accepted filter value X other than "all"
\* and a retriever that supports corpus filtering.
C15_DocumentsMatchAcceptedFilterWhenSupported ==
    (/\ ret_pc = "done"
     /\ supports_corpus_filtering(ret_retriever)
     /\ validated_corpus_filter(ret_request) = ret_request
     /\ ret_request # "all")
        => AllFromCorpus(ret_documents, ret_request)

\* HansardRetriever returned documents for the filter 1901_nz from a store
\* that also holds documents of 1901_au.
C15_Witness ==
    /\ ret_pc = "done"
    /\ ret_retriever = "hansard"
    /\ ret_request = "1901_nz"
    /\ \E d \in DocIds : ret_corpus[d] = "1901_au"
    /\ Len(ret_documents) = 2
    /\ AllFromCorpus(ret_documents, "1901_nz")

-----------------------------------------------------------------------------
(* Citation aggregation (modules/citations.py).  A document is its metadata: *)
(* letter_id, chunk_index and total_chunks, each of which may be absent.     *)
(* The store is filled by create_darwin_store.py, which numbers the chunks   *)
(* of a letter 0 .. len(chunks) - 1 and writes len(chunks) as total_chunks;  *)
(* letters without an id all get the letter_id "unknown".                    *)

MaxDocuments == 3
MaxTotalChunks == 2
MaxCitationLimit == 2

\* The value standing for a chunk_index or total_chunks key that is absent.
Absent == 0 - 1

\* A letter_id that is absent or empty: `if not parent_id` treats both alike.
NoParent == ""

LetterIds == {"DCP-LETT-1", "unknown", NoParent}

\* The chunk metadata ingestion writes, and metadata without chunk fields.
ChunkMetadata ==
    {m \in [chunk_index : 0..(MaxTotalChunks - 1), total_chunks : 1..MaxTotalChunks] :
        m.chunk_index < m.total_chunks}
    \cup {[chunk_index |-> Absent, total_chunks |-> Absent]}

StoredDocuments ==
    {[letter_id |-> l, chunk_index |-> m.chunk_index, total_chunks |-> m.total_chunks] :
        l \in LetterIds, m \in ChunkMetadata}

\* dict.get(key, default)
meta_get(value, default) == IF value = Absent THEN default ELSE value

\* order: the parents in the order they are first seen.  The variant
\* every_seen_order appends a parent each time it is seen.
RECURSIVE first_seen_order(_, _)
RECURSIVE every_seen_order(_, _)
every_seen_order(documents, order) ==
    IF documents = <<>> THEN order
    ELSE every_seen_order(Tail(documents), Append(order, Head(documents).letter_id))

first_seen_order(documents, order) ==
    IF documents = <<>> THEN order
    ELSE LET parent_id == Head(documents).letter_id
         IN  first_seen_order(Tail(documents),
                 IF \E i \in 1..Len(order) : order[i] = parent_id
                 THEN order ELSE Append(order, parent_id))

\* groups[parent_id]
group(documents, parent_id) ==
    SelectSeq(documents, LAMBDA d : d.letter_id = parent_id)

\* sorted(set(...)): ascending.
RECURSIVE sorted(_)
sorted(values) ==
    IF values = {} THEN <<>>
    ELSE LET least == CHOOSE v \in values : \A w \in values : v <= w
         IN  <<least>> \o sorted(values \ {least})

\* max(... for d in docs).  The variant below it takes the least value.
min_of(values) == CHOOSE v \in values : \A w \in values : v <= w
max_of(values) == CHOOSE v \in values : \A w \in values : v >= w

\* The citation built for one parent: parent_id, chunk_indices, total_chunks.
citation_for(documents, parent_id) ==
    LET docs == group(documents, parent_id)
        chunk_indices == {meta_get(docs[i].chunk_index, 0) : i \in 1..Len(docs)}
        total_chunks == max_of({meta_get(docs[i].total_chunks, 1) : i \in 1..Len(docs)})
    IN  [parent_id |-> parent_id,
         chunk_indices |-> sorted(chunk_indices),
         total_chunks |-> total_chunks,
         related_snippets |-> IF Len(docs) - 1 < 2 THEN Len(docs) - 1 ELSE 2]

\* aggregate_parent_citations: no citations at all when a document lacks the
\* parent key, otherwise one citation per parent, at most `limit` of them.
aggregate_parent_citations(documents, limit) ==
    IF \E i \in 1..Len(documents) : documents[i].letter_id = NoParent
    THEN <<>>
    ELSE LET order == first_seen_order(documents, <<>>)
         IN  [p \in 1..(IF limit < Len(order) THEN limit ELSE Len(order)) |->
                 citation_for(documents, order[p])]

CitationInit ==
    /\ cit_documents \in UNION {[1..n -> StoredDocuments] : n \in 0..MaxDocuments}
    /\ cit_limit \in 1..MaxCitationLimit
    /\ cit_citations = <<>>
    /\ cit_pc = "ready"

\* The call aggregate_parent_citations(documents, limit=limit).
AggregateParentCitations ==
    /\ cit_pc = "ready"
    /\ cit_citations' = aggregate_parent_citations(cit_documents, cit_limit)
    /\ cit_pc' = "done"
    /\ UNCHANGED <<notCitationVars, cit_documents, cit_limit>>

NextCitation == AggregateParentCitations

InitCitation ==
    /\ CitationInit
    /\ RestIdleExcept("citation")
    /\ StreamInit /\ QueueInit /\ max_concurrent_requests = 1

SpecCitation == InitCitation /\ [][NextCitation]_vars

FirstAppearance(parent_id) ==
    CHOOSE i \in 1..Len(cit_documents) :
        /\ cit_documents[i].letter_id = parent_id
        /\ \A j \in 1..(i - 1) : cit_documents[j].letter_id # parent_id

-----------------------------------------------------------------------------
(* What the frames of /api/ask/stream and the answer of /api/feedback        *)
(* carry.  A text is the sequence of its pieces; an absent optional argument *)
(* (None) and an empty list are both the empty sequence, as `x or []` makes  *)
(* them.                                                                     *)

\* create_complete_message: `citations or []`, `references or {}`.
create_complete_message(text, citations, references, qa_id) ==
    [qaId |-> qa_id,
     responseComplete |-> TRUE,
     responseText |-> text,
     citations |-> citations,
     references |-> references]

\* The completion message response_generator builds for request r:
\* create_complete_message(text=full_response, qa_id=qa_id), the citations
\* and references arguments left out.
complete_message(r) ==
    create_complete_message(<<"<full_response>">>, <<>>, <<>>, r)

\* C16: for every /api/ask/stream request that retrieved at least one
\* document and ended normally, the `citations` field of the final
\* `complete` event is non-empty.
C16_CompleteEventCarriesCitations ==
    \A r \in Requests :
        (frames[r] # <<>> /\ LastFrame(r) = "complete")
            => complete_message(r).citations # <<>>

\* str(e) of an exception, where a text interpolates it.
ExceptionText == "<str(exception)>"

\* The text a client reads in a frame of each kind.
frame_text(f) ==
    CASE f = "chunk" -> <<"<LLM output>">>
      [] f = "chunk_fallback" -> <<"Error generating response">>
      [] f = "chunk_exception" -> <<"Error generating response: ", ExceptionText>>
      [] f = "error_retrieval" -> <<"No relevant documents found for your query.">>
      [] f = "error_pipeline" -> <<"An error occurred while processing your request">>
      [] f = "error_processing" -> <<"An error occurred while processing your request">>
      [] f = "error_streaming" -> <<"An error occurred while streaming the response">>
      [] f = "error_reference" -> <<"An error occurred while processing references">>
      [] OTHER -> <<>>

\* The message of the FeedbackResponse submit_feedback returned.
feedback_message ==
    IF fb_pc # "done" THEN <<>>
    ELSE IF ~fb_enabled
         THEN <<"Feedback received but telemetry is disabled. Feedback was not recorded.">>
    ELSE IF fb_status = "success"
         THEN <<"Feedback recorded successfully">>
    ELSE <<"Unable to associate your feedback with this conversation. This may happen if the conversation data has expired. Please try again or contact support if this issue persists.">>

Mentions(text, piece) == \E i \in 1..Len(text) : text[i] = piece

\* C17: no frame of an /api/ask/stream response and no /api/feedback
\* response body contains text taken from an exception message.
C17_NoExceptionTextReachesClient ==
    /\ \A r \in Requests : \A i \in 1..Len(frames[r]) :
           ~Mentions(frame_text(frames[r][i]), ExceptionText)
    /\ ~Mentions(feedback_message, ExceptionText)

-----------------------------------------------------------------------------
(* The reranker (modules/document_reranking.py).  A text is the sequence of  *)
(* its words; `a in b` on texts is containment of a as a run of consecutive  *)
(* words, and the 50-character proximity window spans these short texts.     *)
(* Scores are counted in tenths, so that the weights 0.5, 0.3 and 0.2 and    *)
(* the bonus 0.5 are the integers 5, 3, 2 and 5.                             *)

MaxRerankDocuments == 3
MaxDocs == 3

EXACT_MATCH_SCORE == 10
MAX_KEYWORD_SCORE == 5
MAX_SCORE == 10
MIN_TERM_LENGTH == 3
WEIGHT_EXACT_MATCH == 5
WEIGHT_KEYWORD_FREQ == 3
WEIGHT_PROXIMITY == 2
METADATA_MATCH_BONUS == 5

STOP_WORDS == {"a", "an", "the", "and", "or", "but", "in", "on", "at", "to",
               "for", "with", "by", "about", "as", "is", "are", "was", "were",
               "has", "have", "had", "be", "been", "being", "of", "from", "it"}

\* str.lower() and len() on the words in use.
lower_word(w) == IF w = "The" THEN "the" ELSE IF w = "Darwin" THEN "darwin" ELSE w
word_length(w) ==
    CASE w \in {"us"} -> 2
      [] w \in {"the", "The"} -> 3
      [] OTHER -> 6

lower_text(text) == [i \in 1..Len(text) |-> lower_word(text[i])]

\* The queries and the documents (text and one metadata string) in use.
RerankQueries ==
    {<<>>, <<"The", "of">>, <<"the">>, <<"us">>, <<"Darwin">>, <<"darwin", "beagle">>}
RerankTexts ==
    {<<"the", "of">>, <<"of", "The">>, <<"beagle", "darwin">>}
RerankDocuments ==
    {[page_content |-> t, title |-> <<>>] : t \in RerankTexts}
        \cup {[page_content |-> <<"beagle">>, title |-> <<"Darwin">>]}

\* keywords: the query's words that are no stop-words and long enough.
keywords_of(query) ==
    SelectSeq(lower_text(query),
              LAMBDA w : w \notin STOP_WORDS /\ word_length(w) >= MIN_TERM_LENGTH)

\* `a in b`: a occurs in b.  The variant above it is b.startswith(a).
contains_at_start(b, a) ==
    Len(a) <= Len(b) /\ \A i \in 1..Len(a) : b[i] = a[i]
contains(b, a) ==
    \E s \in 0..(Len(b) - Len(a)) : \A i \in 1..Len(a) : b[s + i] = a[i]

\* len(pattern.findall(content)): whole-word occurrences of a keyword.
occurrences(content, keyword) ==
    Cardinality({i \in 1..Len(content) : content[i] = keyword})

\* pattern.search(content) for the proximity pattern kw1 ... kw2.
near(content, kw1, kw2) ==
    \E i, j \in 1..Len(content) : i < j /\ content[i] = kw1 /\ content[j] = kw2

\* calculate_relevance_score, in tenths.
calculate_relevance_score(document, query) ==
    LET content == lower_text(document.page_content)
        query_lower == lower_text(query)
        keywords == keywords_of(query)
        n == Len(keywords)
        phrase_score == IF contains(content, query_lower) THEN EXACT_MATCH_SCORE ELSE 0
        per_keyword(i) ==
            LET count == occurrences(content, keywords[i])
            IN  IF count < MAX_KEYWORD_SCORE THEN count ELSE MAX_KEYWORD_SCORE
        score_upto[i \in 0..n] == IF i = 0 THEN 0 ELSE score_upto[i - 1] + per_keyword(i)
        keyword_score == score_upto[n]
        proximity_score ==
            Cardinality({p \in (1..n) \X (1..n) :
                            p[1] < p[2] /\ near(content, keywords[p[1]], keywords[p[2]])})
            + Cardinality({p \in (1..n) \X (1..n) :
                            p[1] < p[2] /\ near(content, keywords[p[2]], keywords[p[1]])})
        metadata_boost ==
            IF \E i \in 1..n : contains(lower_text(document.title), <<keywords[i]>>)
            THEN METADATA_MATCH_BONUS ELSE 0
        total_score == phrase_score * WEIGHT_EXACT_MATCH
                       + keyword_score * WEIGHT_KEYWORD_FREQ
                       + proximity_score * WEIGHT_PROXIMITY
                       + metadata_boost
    IN  IF total_score < MAX_SCORE * 10 THEN total_score ELSE MAX_SCORE * 10

\* Among equal scores list.sort keeps the earlier element first.  The
\* variant below it puts the later element first.
tie_before_reversed(j, i) == j > i
tie_before(j, i) == j < i

\* scored_docs.sort(key=score, reverse=True) followed by [:max_docs].
sorted_scored_docs(documents, query, max_docs) ==
    LET n == Len(documents)
        score == [i \in 1..n |-> calculate_relevance_score(documents[i], query)]
        place == [i \in 1..n |-> 1 + Cardinality({j \in 1..n :
                        \/ sorts_before(score[j], score[i])
                        \/ (score[j] = score[i] /\ tie_before(j, i))})]
        at == [p \in 1..n |-> CHOOSE i \in 1..n : place[i] = p]
    IN  [p \in 1..(IF max_docs < n THEN max_docs ELSE n) |->
            [document |-> documents[at[p]], position |-> at[p], score |-> score[at[p]]]]

\* _rerank_documents_internal: with an empty query the first max_docs
\* documents come back unsorted with score 0.
rerank_documents_internal(documents, query, max_docs) ==
    IF documents = <<>> THEN <<>>
    ELSE IF query = <<>>
    THEN [p \in 1..(IF max_docs < Len(documents) THEN max_docs ELSE Len(documents)) |->
             [document |-> documents[p], position |-> p, score |-> 0]]
    ELSE sorted_scored_docs(documents, query, max_docs)

RerankInit ==
    /\ rr_documents \in UNION {[1..n -> RerankDocuments] : n \in 0..MaxRerankDocuments}
    /\ rr_query \in RerankQueries
    /\ rr_max_docs \in 1..MaxDocs
    /\ rr_reranked = <<>>
    /\ rr_scores = <<>>
    /\ rr_pc = "ready"

\* The call _rerank_documents_internal(documents, query, max_docs).
RerankDocumentsInternal ==
    /\ rr_pc = "ready"
    /\ LET scored_docs == rerank_documents_internal(rr_documents, rr_query, rr_max_docs)
       IN  /\ rr_reranked' = [p \in 1..Len(scored_docs) |->
                                 [document |-> scored_docs[p].document,
                                  position |-> scored_docs[p].position]]
           /\ rr_scores' = [p \in 1..Len(scored_docs) |-> scored_docs[p].score]
    /\ rr_pc' = "done"
    /\ UNCHANGED <<notRerankVars, rr_documents, rr_query, rr_max_docs>>

NextRerank == RerankDocumentsInternal

InitRerank ==
    /\ StreamInit /\ QueueInit /\ max_concurrent_requests = 1
    /\ RestIdleExcept("rerank")
    /\ RerankInit

SpecRerank == InitRerank /\ [][NextRerank]_vars

InputOrderKept ==
    \A p \in 1..Len(rr_reranked) : rr_reranked[p].position = p

\* The lower-cased query occurs somewhere in the lower-cased text.
QueryOccursIn(document) ==
    LET text == document.page_content
    IN  \E s \in 0..(Len(text) - Len(rr_query)) :
            \A i \in 1..Len(rr_query) :
                lower_word(text[s + i]) = lower_word(rr_query[i])

\* C22 as stated: if the query consists only of stop-words (its keyword set
\* is empty), the reranker assigns score 0 to every document and returns the
\* documents in their input order.
C22_StopWordQueryScoresZero ==
    (rr_pc = "done" /\ keywords_of(rr_query) = <<>>)
        => /\ \A p \in 1..Len(rr_scores) : rr_scores[p] = 0
           /\ InputOrderKept

\* C22 amended: with an empty keyword set a document scores 5.0 when its
\* text contains the query and 0 otherwise; when no document contains the
\* query every score is 0 and the input order is kept.
C22_StopWordQueryScoresPhraseOnly ==
    (rr_pc = "done" /\ keywords_of(rr_query) = <<>>)
        => /\ \A p \in 1..Len(rr_scores) :
                  rr_scores[p] =
                      IF rr_query # <<>> /\ QueryOccursIn(rr_reranked[p].document)
                      THEN EXACT_MATCH_SCORE * WEIGHT_EXACT_MATCH ELSE 0
           /\ (\A i \in 1..Len(rr_documents) : ~QueryOccursIn(rr_documents[i]))
                  => InputOrderKept

\* A stop-word query was reranked over two documents, the second of which
\* contains the query: it scored 5.0 and came first.
C22_Witness ==
    /\ rr_pc = "done"
    /\ rr_query = <<"The", "of">>
    /\ Len(rr_documents) = 2
    /\ Len(rr_reranked) = 2
    /\ rr_reranked[1].position = 2
    /\ rr_scores = <<50, 0>>

\* C23: any two documents that receive the same rerank score keep, in the
\* reranked output, the relative order they had in the retrieval input.
C23_RerankIsStable ==
    rr_pc = "done" =>
        \A p, q \in 1..Len(rr_reranked) :
            (p < q /\ rr_scores[p] = rr_scores[q])
                => rr_reranked[p].position < rr_reranked[q].position

\* Three documents were reranked for a keyword query; the first and the
\* last scored the same, below the second, and kept their order.
C23_Witness ==
    /\ rr_pc = "done"
    /\ keywords_of(rr_query) # <<>>
    /\ Len(rr_reranked) = 3
    /\ rr_reranked[1].position = 2
    /\ rr_reranked[2].position = 1
    /\ rr_reranked[3].position = 3
    /\ rr_scores[2] = rr_scores[3]
    /\ rr_scores[1] > rr_scores[2]

-----------------------------------------------------------------------------
(* Input validation of POST /api/query and POST /api/ask/stream (app.py).    *)
(* A question is a core text, which begins and ends with a non-whitespace    *)
(* character (or is empty), between leading and trailing whitespace.         *)

MaxPadding == 1
MAX_QUESTION_LENGTH == 2000

CoreLengths == {0, 1, MAX_QUESTION_LENGTH - 1, MAX_QUESTION_LENGTH, MAX_QUESTION_LENGTH + 1}

Questions ==
    [leading : 0..MaxPadding, core : CoreLengths, trailing : 0..MaxPadding,
     dangerous : BOOLEAN]

\* len(s) of the text as sent and of str.strip() of it.
raw_length(q) == q.leading + q.core + q.trailing
strip(q) == [q EXCEPT !.leading = 0, !.trailing = 0]

\* any(pattern in question.lower() for pattern in dangerous_patterns): the
\* patterns are longer than one character.
has_dangerous_pattern(q) == q.dangerous /\ q.core > 1

\* len(question) > 2000, and the variant that also refuses 2000.
too_long_inclusive(n) == n >= MAX_QUESTION_LENGTH
too_long(n) == n > MAX_QUESTION_LENGTH

ValidateInit ==
    /\ vl_endpoint \in {"query", "ask_stream"}
    /\ vl_raw \in Questions
    /\ vl_pc = "received"
    /\ vl_status_code = 0
    /\ vl_detail = ""

\* The checks at the head of query and of ask_stream, which are the same.
validate(endpoint) ==
    /\ vl_pc = "received"
    /\ vl_endpoint = endpoint
    /\ LET question == strip(vl_raw)
       IN  IF raw_length(question) = 0 \/ too_long(raw_length(question))
           THEN /\ vl_pc' = "rejected"
                /\ vl_status_code' = 400
                /\ vl_detail' = "length"
           ELSE IF has_dangerous_pattern(question)
           THEN /\ vl_pc' = "rejected"
                /\ vl_status_code' = 400
                /\ vl_detail' = "content"
           ELSE /\ vl_pc' = "validated"
                /\ UNCHANGED <<vl_status_code, vl_detail>>
    /\ UNCHANGED <<notValidateVars, vl_endpoint, vl_raw>>

ValidateQuery == validate("query")
ValidateAskStream == validate("ask_stream")

\* The handler goes on to retrieve documents.
ValidateRetrieval ==
    /\ vl_pc = "validated"
    /\ vl_pc' = "retrieving"
    /\ UNCHANGED <<notValidateVars, vl_endpoint, vl_raw, vl_status_code, vl_detail>>

NextValidate == ValidateQuery \/ ValidateAskStream \/ ValidateRetrieval

InitValidate ==
    /\ StreamInit /\ QueueInit /\ max_concurrent_requests = 1
    /\ RestIdleExcept("validate")
    /\ ValidateInit

SpecValidate == InitValidate /\ [][NextValidate]_vars

-----------------------------------------------------------------------------
(* Slot accounting of the streaming path, under SpecStream.                  *)

\* C25: for every /api/ask/stream request, by the time its response
\* generator has terminated (normally, by an exception at any stage, or by
\* client disconnect) release_llm_slot has been called exactly as many times
\* as acquire_llm_slot succeeded for that request: once if a slot was
\* acquired, never if it was not.
C25_ReleasesMatchAcquisitions ==
    \A r \in Requests :
        pc[r] \in {"done", "cancelled"} => released[r] = acquired[r]

-----------------------------------------------------------------------------
(* The stages of one request: response_generator of ask_stream (app.py) and  *)
(* process_query_sync (services/llm_service.py), with corpus_filter "all".   *)

MaxRetrieved == 2
DEFAULT_MAX_DOCS == 10

RetrieverAnswers ==
    [raises : BOOLEAN,
     documents : UNION {[1..n -> RerankDocuments] : n \in 0..MaxRetrieved}]

PipelineQuestions == RerankQueries \ {<<>>}

PipelineInit ==
    /\ pl_path \in {"stream", "sync"}
    /\ pl_question \in PipelineQuestions
    /\ pl_retriever \in RetrieverAnswers
    /\ pl_documents = <<>>
    /\ pl_stages = <<>>
    /\ pl_pc = "guardrail"

\* detect_sensitive_contexts: returns an empty list, nothing is refused.
DetectSensitiveContexts ==
    /\ pl_pc = "guardrail"
    /\ pl_stages' = Append(pl_stages, "guardrail")
    /\ pl_pc' = "retrieval"
    /\ UNCHANGED <<notPipelineVars, pl_path, pl_question, pl_retriever, pl_documents>>

\* retrieve_documents_with_telemetry, and what follows it in either path:
\* an error when it raised or found nothing; otherwise the streaming path
\* goes on to acquire a slot and generate, the synchronous path to filter.
RetrieveDocumentsWithTelemetry ==
    /\ pl_pc = "retrieval"
    /\ pl_stages' = Append(pl_stages, "retrieval")
    /\ IF pl_retriever.raises \/ pl_retriever.documents = <<>>
       THEN /\ pl_pc' = "error"
            /\ UNCHANGED pl_documents
       ELSE /\ pl_documents' = [i \in 1..Len(pl_retriever.documents) |->
                                   [document |-> pl_retriever.documents[i], position |-> i]]
            /\ pl_pc' = IF pl_path = "stream" THEN "generation" ELSE "filtering"
    /\ UNCHANGED <<notPipelineVars, pl_path, pl_question, pl_retriever>>

\* filter_documents_with_telemetry with corpus_filter "all": every document
\* is kept.
FilterDocumentsWithTelemetry ==
    /\ pl_pc = "filtering"
    /\ pl_stages' = Append(pl_stages, "filtering")
    /\ pl_pc' = "reranking"
    /\ UNCHANGED <<notPipelineVars, pl_path, pl_question, pl_retriever, pl_documents>>

\* rerank_documents_with_telemetry with the default max_docs.
RerankDocumentsWithTelemetry ==
    /\ pl_pc = "reranking"
    /\ LET documents == [i \in 1..Len(pl_documents) |-> pl_documents[i].document]
           scored_docs == rerank_documents_internal(documents, pl_question, DEFAULT_MAX_DOCS)
       IN  pl_documents' = [p \in 1..Len(scored_docs) |->
                               [document |-> scored_docs[p].document,
                                position |-> pl_documents[scored_docs[p].position].position]]
    /\ pl_stages' = Append(pl_stages, "reranking")
    /\ pl_pc' = "generation"
    /\ UNCHANGED <<notPipelineVars, pl_path, pl_question, pl_retriever>>

\* generate_response_with_telemetry on the local variable documents.
GenerateResponseWithTelemetry ==
    /\ pl_pc = "generation"
    /\ pl_stages' = Append(pl_stages, "generation")
    /\ pl_pc' = "ok"
    /\ UNCHANGED <<notPipelineVars, pl_path, pl_question, pl_retriever, pl_documents>>

NextPipeline ==
    \/ DetectSensitiveContexts
    \/ RetrieveDocumentsWithTelemetry
    \/ FilterDocumentsWithTelemetry
    \/ RerankDocumentsWithTelemetry
    \/ GenerateResponseWithTelemetry

InitPipeline ==
    /\ StreamInit /\ QueueInit /\ max_concurrent_requests = 1
    /\ RestIdleExcept("pipeline")
    /\ PipelineInit

SpecPipeline == InitPipeline /\ [][NextPipeline]_vars

\* C26: every /api/ask/stream request passes through the stages guardrail
\* check, retrieval, reranking and generation strictly in that order; no
\* request enters generation unless the reranking stage has run on its
\* retrieved documents.
C26_StreamStagesInOrder ==
    pl_path = "stream" =>
        /\ IsPrefix(pl_stages, <<"guardrail", "retrieval", "reranking", "generation">>)
        /\ pl_pc \in {"generation", "ok"} =>
               \E i \in 1..Len(pl_stages) : pl_stages[i] = "reranking"

-----------------------------------------------------------------------------
(* Progress of the workers.  The loop of LLMWorker.start runs as long as the *)
(* worker process does: a worker that can take a step eventually takes one.  *)
(* Failures of store commands and the passing of time are not forced.        *)

\* One step of worker w that is not a failure of the store.
WorkerStep(w) ==
    \/ get_next_request(w)
    \/ UpdateExists(w)
    \/ UpdateHset(w)
    \/ UpdateSet(w)
    \/ PipelineSucceeds(w)
    \/ PipelineRaises(w)

SpecQueueLive ==
    /\ InitQueue
    /\ [][NextQueue]_vars
    /\ \A w \in Workers : WF_vars(WorkerStep(w))

\* A worker has popped the job and holds it.
Popped(j) == \E w \in Workers : worker[w].job = j

\* The status completed or failed was written to the job's record.
Settled(j) ==
    \E i \in DOMAIN status_writes[j] : status_writes[j][i] \in {"completed", "failed"}

\* C27: provided worker processes keep running, every request id that a
\* worker pops from the queue eventually has status completed or failed; no
\* popped job stays queued or processing until its record expires.
C27_PoppedJobIsSettled ==
    \A j \in Jobs : Popped(j) ~> Settled(j)

\* C28: once a job's result or error has been stored, the status record
\* request:<id> and the stored blob result:<id> expire at the same instant:
\* at no time does one of them exist while the other has already expired.
C28_RecordAndBlobExpireTogether ==
    \A j \in Jobs :
        result_key[j].present =>
            /\ request_key[j].expire_at = result_key[j].expire_at
            /\ Live(request_key[j]) <=> Live(result_key[j])

-----------------------------------------------------------------------------
(* DarwinRetriever.invoke with direction and time period filters             *)
(* (retrievers/darwin_retriever.py).  A filter condition is the record       *)
(* [key, op, name, value, conds]: {"sender_name": n} has key "sender_name",  *)
(* {"year": y} has key "year" and op "eq", {"year": {"$gte": y}} has key     *)
(* "year" and op "$gte", and {"$and": [...]} has key "$and" and its list in  *)
(* conds.  None is the record with key "none".                               *)

DARWIN == "Darwin, C. R."
Correspondents == {DARWIN, "Hooker, J. D."}
Years == {1859, 1875}
DirectionFilters == {"all", "sent", "received"}
TimePeriodFilters == {"all", "1859", "1850-1870", "1870-1882"}

condition(key, op, name, value, conds) ==
    [key |-> key, op |-> op, name |-> name, value |-> value, conds |-> conds]
NoFilter == condition("none", "", "", 0, <<>>)

\* "-" in time_period_filter, and map(int, time_period_filter.split("-")) or
\* int(time_period_filter), for the values in use.
has_dash(time_period_filter) == time_period_filter \in {"1850-1870", "1870-1882"}
start_year(time_period_filter) == IF time_period_filter = "1850-1870" THEN 1850 ELSE 1870
end_year(time_period_filter) == IF time_period_filter = "1850-1870" THEN 1870 ELSE 1882
int_of(time_period_filter) == IF time_period_filter = "1859" THEN 1859 ELSE 0

\* _build_filter_dict
build_filter_dict(direction_filter, time_period_filter) ==
    LET direction_conditions ==
            IF direction_filter = "sent"
            THEN <<condition("sender_name", "eq", DARWIN, 0, <<>>)>>
            ELSE IF direction_filter = "received"
            THEN <<condition("recipient_name", "eq", DARWIN, 0, <<>>)>>
            ELSE <<>>
        time_conditions ==
            IF time_period_filter = "all" THEN <<>>
            ELSE IF has_dash(time_period_filter)
            THEN <<condition("$and", "", "", 0,
                     <<condition("year", "$gte", "", start_year(time_period_filter), <<>>),
                       condition("year", "$lte", "", end_year(time_period_filter), <<>>)>>)>>
            ELSE <<condition("year", "eq", "", int_of(time_period_filter), <<>>)>>
        filter_conditions == direction_conditions \o time_conditions
    IN  IF filter_conditions = <<>> THEN NoFilter
        ELSE IF Len(filter_conditions) = 1 THEN filter_conditions[1]
        ELSE condition("$and", "", "", 0, filter_conditions)

\* Chroma's `where`: a document passes when it meets the condition, all the
\* members of an $and included.
RECURSIVE chroma_matches(_, _)
chroma_matches(meta, cond) ==
    CASE cond.key = "none" -> TRUE
      [] cond.key = "sender_name" -> meta.sender_name = cond.name
      [] cond.key = "recipient_name" -> meta.recipient_name = cond.name
      [] cond.key = "year" /\ cond.op = "eq" -> meta.year = cond.value
      [] cond.key = "year" /\ cond.op = "$gte" -> meta.year >= cond.value
      [] cond.key = "year" /\ cond.op = "$lte" -> meta.year <= cond.value
      [] cond.key = "$and" ->
            \A i \in 1..Len(cond.conds) : chroma_matches(meta, cond.conds[i])

\* The test of _materialize_docs_by_ids on one record of the sidecar.
materialize_keeps(meta, filter_dict) ==
    \/ filter_dict.key = "none"
    \/ /\ ~(filter_dict.key = "sender_name" /\ meta.sender_name # filter_dict.name)
       /\ ~(filter_dict.key = "recipient_name" /\ meta.recipient_name # filter_dict.name)
       /\ IF filter_dict.key = "$and"
          THEN \A i \in 1..Len(filter_dict.conds) :
                   LET cond == filter_dict.conds[i]
                   IN  (cond.key = "year" /\ cond.op \in {"$gte", "$lte"}) =>
                           /\ meta.year # Absent
                           /\ ~(cond.op = "$gte" /\ meta.year < cond.value)
                           /\ ~(cond.op = "$lte" /\ meta.year > cond.value)
          ELSE (filter_dict.key = "year" /\ filter_dict.op = "eq")
                   => meta.year = filter_dict.value

\* Document(page_content, metadata) of a stored chunk.
DarwinDocument(doc_id) ==
    [id |-> doc_id, sender_name |-> hy_metadata[doc_id].sender_name,
     recipient_name |-> hy_metadata[doc_id].recipient_name,
     year |-> hy_metadata[doc_id].year]

\* _dense_search_ids: the ids Chroma returns under the filter, with their
\* positions as scores.
dense_search_ids(ranked, filter_dict) ==
    LET passing == SelectSeq(Ids(ranked),
                             LAMBDA d : chroma_matches(hy_metadata[d], filter_dict))
    IN  [i \in 1..Len(passing) |-> <<passing[i], i - 1>>]

\* _materialize_docs_by_ids
materialize_filtered(ids, filter_dict) ==
    LET kept == SelectSeq(ids, LAMBDA d : materialize_keeps(hy_metadata[d], filter_dict))
    IN  [i \in 1..Len(kept) |-> DarwinDocument(kept[i])]

HybridInit ==
    /\ hy_metadata \in [DocIds -> {[sender_name |-> s, recipient_name |-> r, year |-> y] :
                                     s \in Correspondents, r \in Correspondents, y \in Years}
                                  \ {m \in [sender_name : Correspondents,
                                            recipient_name : Correspondents, year : Years] :
                                         m.sender_name = m.recipient_name}]
    /\ hy_direction \in DirectionFilters
    /\ hy_time_period \in TimePeriodFilters
    /\ hy_search_type \in {"hybrid", "similarity"}
    /\ hy_k \in 1..MaxK
    /\ hy_documents = <<>>
    /\ hy_pc = "ready"

\* DarwinRetriever.invoke(input, config, k=k); per_side exceeds the store.
DarwinInvokeFiltered(chroma_ranked, bm25_ranked, visit) ==
    /\ hy_pc = "ready"
    /\ LET filter_dict == build_filter_dict(hy_direction, hy_time_period)
           dense_ranked == dense_search_ids(chroma_ranked, filter_dict)
       IN  /\ visit \in IterationOrders(all_ids(dense_ranked, bm25_ranked))
           /\ hy_documents' =
                  IF hy_search_type = "hybrid"
                  THEN materialize_filtered(
                           rrf_merge(dense_ranked, bm25_ranked, RRF_K, hy_k, visit),
                           filter_dict)
                  ELSE LET ids == Ids(dense_ranked)
                       IN  [i \in 1..(IF hy_k < Len(ids) THEN hy_k ELSE Len(ids)) |->
                               DarwinDocument(ids[i])]
    /\ hy_pc' = "done"
    /\ UNCHANGED <<notHybridVars, hy_metadata, hy_direction, hy_time_period,
                   hy_search_type, hy_k>>

NextHybrid ==
    \E chroma_ranked \in FullRankings, bm25_ranked \in FullRankings,
       visit \in IterationOrders(DocIds) :
        DarwinInvokeFiltered(chroma_ranked, bm25_ranked, visit)

InitHybrid ==
    /\ StreamInit /\ QueueInit /\ max_concurrent_requests = 1
    /\ RestIdleExcept("hybrid")
    /\ HybridInit

SpecHybrid == InitHybrid /\ [][NextHybrid]_vars

\* What the requested filters ask of a document.
SatisfiesDirection(doc, direction) ==
    /\ direction = "sent" => doc.sender_name = DARWIN
    /\ direction = "received" => doc.recipient_name = DARWIN

SatisfiesTimePeriod(doc, time_period) ==
    /\ time_period = "1859" => doc.year = 1859
    /\ time_period = "1850-1870" => (1850 <= doc.year /\ doc.year <= 1870)
    /\ time_period = "1870-1882" => (1870 <= doc.year /\ doc.year <= 1882)

\* C29: in hybrid mode, every document returned by the Darwin retriever's
\* invoke satisfies every requested filter - direction alone, time period
\* (single year or range) alone, or both combined - including documents that
\* entered the fused list only through BM25.
C29_HybridDocumentsSatisfyFilters ==
    (hy_pc = "done" /\ hy_search_type = "hybrid") =>
        \A i \in 1..Len(hy_documents) :
            /\ SatisfiesDirection(hy_documents[i], hy_direction)
            /\ SatisfiesTimePeriod(hy_documents[i], hy_time_period)

-----------------------------------------------------------------------------
(* The span registry on the streaming path, under SpecStream.                *)

\* C30: after a streaming request has created its pipeline span,
\* find(session_id, qa_id) returns the pipeline span's id for as long as the
\* record is live; no later registration made during the same request
\* replaces it with another span's id.
C30_PipelineSpanStaysRegistered ==
    \A r \in Requests : pc[r] # "idle" => registry[r]["qa_id"] = "pipeline"

-----------------------------------------------------------------------------
(* The span registry of one session as the production configuration runs it  *)
(* (telemetry/registry.py, RedisSpanRegistry, with telemetry enabled): a     *)
(* hash per session in the store, whose time-to-live every registration      *)
(* renews, and the in-memory dict that mirrors it and is never pruned.  A    *)
(* dict is the sequence of its (key, value) pairs in insertion order.  Keys  *)
(* and span ids are pairs: <<"qa", 1>> is qa_id of request 1,                *)
(* <<"response", 1>> is qa_id_response, <<"root", 0>> is "root",             *)
(* <<"None", 0>> is the key None; <<"pipeline", 1>> is the id of the         *)
(* pipeline span of request 1.                                               *)

MaxSessionRequests == 2
MaxSessionTicks == 2
KEY_EXPIRY == 3600

SessionRequests == 1..MaxSessionRequests
SessionTimeSteps == {1, KEY_EXPIRY}
NoSpan == <<"none", 0>>
RootKey == <<"root", 0>>
NoneKey == <<"None", 0>>
SessionKeys == {<<kind, q>> : kind \in {"qa", "response"}, q \in SessionRequests}

\* key in d, d[key], and d[key] = value.
dict_has(d, key) == \E i \in 1..Len(d) : d[i][1] = key
dict_get(d, key) ==
    IF dict_has(d, key) THEN d[CHOOSE i \in 1..Len(d) : d[i][1] = key][2] ELSE NoSpan
dict_set(d, key, value) ==
    IF dict_has(d, key)
    THEN [i \in 1..Len(d) |-> IF d[i][1] = key THEN <<key, value>> ELSE d[i]]
    ELSE Append(d, <<key, value>>)

\* The session hash exists in the store: it has fields and its time-to-live
\* has not passed.
hash_live(hash) == hash.fields # <<>> /\ sr_now < hash.expire_at
live_fields(hash) == IF hash_live(hash) THEN hash.fields ELSE <<>>

\* client.hset(session_key, field, span_id); client.expire(session_key, key_expiry)
hset_expire(hash, field, span_id) ==
    [fields |-> dict_set(live_fields(hash), field, span_id),
     expire_at |-> sr_now + KEY_EXPIRY]

\* RedisSpanRegistry.register_span: the mirror, then the store.
registry_register_span(memory, hash, key, span_id) ==
    [memory |-> dict_set(memory, key, span_id),
     redis |-> hset_expire(hash, key, span_id)]

\* RedisSpanRegistry.register_root_span: keys None and "root" in the mirror,
\* field "root" in the store.
registry_register_root_span(memory, hash, span_id) ==
    [memory |-> dict_set(dict_set(memory, NoneKey, span_id), RootKey, span_id),
     redis |-> hset_expire(hash, RootKey, span_id)]

\* RedisSpanRegistry.find_span: the store first, then the mirror.
registry_find_span(memory, hash, key) ==
    IF dict_has(live_fields(hash), key) THEN dict_get(live_fields(hash), key)
    ELSE dict_get(memory, key)

\* _find_root_span_in_memory: key None, key "root", else the first key.
find_root_span_in_memory(memory) ==
    IF dict_has(memory, NoneKey) THEN dict_get(memory, NoneKey)
    ELSE IF dict_has(memory, RootKey) THEN dict_get(memory, RootKey)
    ELSE IF memory # <<>> /\ memory[1][1] \notin {NoneKey, RootKey} THEN memory[1][2]
    ELSE NoSpan

\* RedisSpanRegistry.find_root_span: the answers it can give.  Field "root"
\* of the store; else the first field HGETALL lists that is not "root", and
\* the store lists the fields of a hash in no guaranteed order; else the
\* mirror.
find_root_span_answers(memory, hash) ==
    LET fields == live_fields(hash)
        others == {i \in 1..Len(fields) : fields[i][1] # RootKey}
    IN  IF dict_has(fields, RootKey) THEN {dict_get(fields, RootKey)}
        ELSE IF others # {} THEN {fields[i][2] : i \in others}
        ELSE {find_root_span_in_memory(memory)}

SessionInit ==
    /\ sr_now = 0
    /\ sr_ticks = 0
    /\ sr_pc = [q \in SessionRequests |-> "new"]
    /\ sr_memory = <<>>
    /\ sr_redis = [fields |-> <<>>, expire_at |-> 0]
    /\ sr_registered_at = [key \in SessionKeys |-> Absent]
    /\ sr_first_pipeline = NoSpan
    /\ sr_found = [key |-> NoSpan, span |-> NoSpan]
    /\ sr_found_root = NoSpan

\* create_rag_pipeline_span._register_span_on_enter for request q:
\* register_span(session_id, qa_id, span_id), then the session root is
\* registered if find_session_root_span_id finds none.
PipelineSpanEnter(q) ==
    /\ sr_pc[q] = "new"
    /\ LET span_id == <<"pipeline", q>>
           registered == registry_register_span(sr_memory, sr_redis, <<"qa", q>>, span_id)
       IN  \E current_root \in find_root_span_answers(registered.memory, registered.redis) :
               LET rooted == IF current_root = NoSpan
                             THEN registry_register_root_span(registered.memory,
                                                              registered.redis, span_id)
                             ELSE registered
               IN  /\ sr_memory' = rooted.memory
                   /\ sr_redis' = rooted.redis
                   /\ sr_first_pipeline' = IF sr_first_pipeline = NoSpan
                                           THEN span_id ELSE sr_first_pipeline
    /\ sr_registered_at' = [sr_registered_at EXCEPT ![<<"qa", q>>] = sr_now]
    /\ sr_pc' = [sr_pc EXCEPT ![q] = "pipeline"]
    /\ UNCHANGED <<notSessionVars, sr_now, sr_ticks, sr_found, sr_found_root>>

\* telemetry_wrapped_generator opens the generation span of request q:
\* register_span(session_id, qa_id, span_id) with the id of the LLM span.
GenerationSpanEnter(q) ==
    /\ sr_pc[q] = "pipeline"
    /\ LET registered == registry_register_span(sr_memory, sr_redis, <<"qa", q>>,
                                                <<"generation", q>>)
       IN  /\ sr_memory' = registered.memory
           /\ sr_redis' = registered.redis
    /\ sr_registered_at' = [sr_registered_at EXCEPT ![<<"qa", q>>] = sr_now]
    /\ sr_pc' = [sr_pc EXCEPT ![q] = "generation"]
    /\ UNCHANGED <<notSessionVars, sr_now, sr_ticks, sr_first_pipeline, sr_found,
                   sr_found_root>>

\* The response span of request q is registered under qa_id_response.
ResponseSpanRegistered(q) ==
    /\ sr_pc[q] = "generation"
    /\ LET registered == registry_register_span(sr_memory, sr_redis, <<"response", q>>,
                                                <<"response", q>>)
       IN  /\ sr_memory' = registered.memory
           /\ sr_redis' = registered.redis
    /\ sr_registered_at' = [sr_registered_at EXCEPT ![<<"response", q>>] = sr_now]
    /\ sr_pc' = [sr_pc EXCEPT ![q] = "done"]
    /\ UNCHANGED <<notSessionVars, sr_now, sr_ticks, sr_first_pipeline, sr_found,
                   sr_found_root>>

\* find_span(session_id, key)
FindSpan(key) ==
    /\ sr_found' = [key |-> key, span |-> registry_find_span(sr_memory, sr_redis, key)]
    /\ UNCHANGED <<notSessionVars, sr_now, sr_ticks, sr_pc, sr_memory, sr_redis,
                   sr_registered_at, sr_first_pipeline, sr_found_root>>

\* find_root_span(session_id)
FindRootSpan ==
    /\ sr_found_root' \in find_root_span_answers(sr_memory, sr_redis)
    /\ UNCHANGED <<notSessionVars, sr_now, sr_ticks, sr_pc, sr_memory, sr_redis,
                   sr_registered_at, sr_first_pipeline, sr_found>>

\* Time passes.
SessionTick(d) ==
    /\ sr_ticks < MaxSessionTicks
    /\ sr_ticks' = sr_ticks + 1
    /\ sr_now' = sr_now + d
    /\ UNCHANGED <<notSessionVars, sr_pc, sr_memory, sr_redis, sr_registered_at,
                   sr_first_pipeline, sr_found, sr_found_root>>

NextSession ==
    \/ \E q \in SessionRequests : PipelineSpanEnter(q)
    \/ \E q \in SessionRequests : GenerationSpanEnter(q)
    \/ \E q \in SessionRequests : ResponseSpanRegistered(q)
    \/ \E key \in SessionKeys : FindSpan(key)
    \/ FindRootSpan
    \/ \E d \in SessionTimeSteps : SessionTick(d)

InitSession ==
    /\ StreamInit /\ QueueInit /\ max_concurrent_requests = 1
    /\ RestIdleExcept("session")
    /\ SessionInit

SpecSession == InitSession /\ [][NextSession]_vars

\* C31: the first pipeline span created in a session is registered as the
\* session root, and find_root(session_id) returns that same span id after
\* every later request in the same session.
C31_FirstPipelineSpanIsRoot ==
    sr_first_pipeline # NoSpan =>
        /\ dict_get(sr_memory, RootKey) = sr_first_pipeline
        /\ find_root_span_answers(sr_memory, sr_redis) = {sr_first_pipeline}
        /\ sr_found_root \in {NoSpan, sr_first_pipeline}

\* C32: find(session_id, qa_id) never returns a span id for a record that
\* was registered longer ago than the registry TTL (1 hour for the shared
\* store); an expired record is treated as absent.
C32_ExpiredRecordIsAbsent ==
    \A key \in SessionKeys :
        (sr_registered_at[key] # Absent /\ sr_now - sr_registered_at[key] > KEY_EXPIRY)
            => /\ registry_find_span(sr_memory, sr_redis, key) = NoSpan
               /\ (sr_found.key = key => sr_found.span = NoSpan)

-----------------------------------------------------------------------------
(* Expiry of the prompt cache, under SpecCache.                              *)

\* The call that the step made, if it made one.
CallMade == Len(cache_calls') = Len(cache_calls) + 1
TheCall == cache_calls'[Len(cache_calls')]
KeyOfCall ==
    create_cache_key(TheCall.system_prompt, TheCall.context, TheCall.provider,
                     TheCall.model)

\* C33: get_cached_prompt returns a hit for a key exactly when an entry for
\* that key exists with now <= last_used + ttl, where last_used is the time
\* of the entry's insertion or of its most recent hit; an entry with
\* now > last_used + ttl is never returned and is removed from the cache.
C33_HitExactlyWhenLiveEntry ==
    [][CallMade =>
         /\ TheCall.cache_hit <=>
                \E e \in cache : /\ e.prompt_hash = KeyOfCall
                                 /\ cache_now <= e.last_used + e.ttl_minutes
         /\ \A e \in cache' : cache_now <= e.last_used + e.ttl_minutes
         /\ \A e \in cache : cache_now > e.last_used + e.ttl_minutes
                                 => \A f \in cache' : f.prompt_hash = e.prompt_hash
                                                          => f.last_used = cache_now
      ]_vars

\* A request was repeated more than one TTL after its entry was last used:
\* the second call missed and stored a fresh entry.
C33_Witness ==
    /\ cache_enabled
    /\ Len(cache_calls) = 2
    /\ SameArguments(cache_calls[1], cache_calls[2])
    /\ cache_calls[2].at > cache_calls[1].at + default_ttl_minutes
    /\ ~cache_calls[2].cache_hit
    /\ \A e \in cache : e.last_used = cache_calls[2].at /\ e.hit_count = 0

\* ---------------------------------------------------------------------------
\* Concurrent calls into the prompt cache (services/llm_service.py,
\* modules/prompt_cache.py).  process_query_async hands process_query_sync to
\* a thread pool of LLM_WORKERS threads; each of them reaches
\* build_optimized_prompt through generate_response, on the single
\* module-level PromptCache, which holds no lock.  The threads interleave
\* between any two bytecodes, so each statement of get_cached_prompt that
\* reads and then writes shared state is two steps here.
\* ---------------------------------------------------------------------------
LLM_WORKERS == 2

MaxInitialHits == 1

CacheThreads == 1..LLM_WORKERS

\* The shared entry is live with some hit_count; the other entry of the cache
\* is absent, live, or past its time-to-live.
RaceInit ==
    /\ rc_pc = [t \in CacheThreads |-> "called"]
    /\ rc_expired_keys = [t \in CacheThreads |-> {}]
    /\ rc_loaded = [t \in CacheThreads |-> 0]
    /\ rc_initial_hits \in 0..MaxInitialHits
    /\ rc_hit_count = rc_initial_hits
    /\ rc_other \in {"absent", "live", "expired"}

\* _cleanup_expired, first statement: the list of the keys whose entry is
\* expired.
CleanupScan(t) ==
    /\ rc_pc[t] = "called"
    /\ rc_expired_keys' = [rc_expired_keys EXCEPT ![t] = IF rc_other = "expired" THEN {"other"} ELSE {}]
    /\ rc_pc' = [rc_pc EXCEPT ![t] = "scanned"]
    /\ UNCHANGED <<notRaceVars, rc_loaded, rc_hit_count, rc_initial_hits, rc_other>>

\* _cleanup_expired, the loop: del self.cache[key] for each listed key; a key
\* that another thread has deleted meanwhile raises KeyError, which neither
\* get_cached_prompt nor build_optimized_prompt catches.
CleanupDelete(t) ==
    /\ rc_pc[t] = "scanned"
    /\ IF rc_expired_keys[t] = {}
       THEN /\ rc_pc' = [rc_pc EXCEPT ![t] = "cleaned"]
            /\ UNCHANGED rc_other
       ELSE IF rc_other = "absent"
            THEN /\ rc_pc' = [rc_pc EXCEPT ![t] = "raised"]
                 /\ UNCHANGED rc_other
            ELSE /\ rc_pc' = [rc_pc EXCEPT ![t] = "cleaned"]
                 /\ rc_other' = "absent"
    /\ UNCHANGED <<notRaceVars, rc_expired_keys, rc_loaded, rc_hit_count, rc_initial_hits>>

\* entry.hit_count += 1, the load: the key is in the cache and its entry is
\* not expired, so the thread takes the hit branch.
LoadHitCount(t) ==
    /\ rc_pc[t] = "cleaned"
    /\ rc_loaded' = [rc_loaded EXCEPT ![t] = rc_hit_count]
    /\ rc_pc' = [rc_pc EXCEPT ![t] = "loaded"]
    /\ UNCHANGED <<notRaceVars, rc_expired_keys, rc_hit_count, rc_initial_hits, rc_other>>

\* entry.hit_count += 1, the store, and the return of the cached prompt.
StoreHitCount(t) ==
    /\ rc_pc[t] = "loaded"
    /\ rc_hit_count' = rc_loaded[t] + 1
    /\ rc_pc' = [rc_pc EXCEPT ![t] = "returned"]
    /\ UNCHANGED <<notRaceVars, rc_expired_keys, rc_loaded, rc_initial_hits, rc_other>>

NextRace ==
    \/ \E t \in CacheThreads : CleanupScan(t)
    \/ \E t \in CacheThreads : CleanupDelete(t)
    \/ \E t \in CacheThreads : LoadHitCount(t)
    \/ \E t \in CacheThreads : StoreHitCount(t)

InitRace ==
    /\ StreamInit /\ QueueInit /\ max_concurrent_requests = 1
    /\ RestIdleExcept("race")
    /\ RaceInit

SpecRace == InitRace /\ [][NextRace]_vars

max_retries == 2

initial_retry_delay == 1

\* What one call of retrieve_documents_with_telemetry can do: return, or
\* raise one of these exception classes.
RetrievalExceptions == {"TimeoutError", "ConnectionError", "ConnectionRefusedError", "ValueError", "RuntimeError"}

RetrievalOutcomes == {"ok"} \cup RetrievalExceptions

\* isinstance(exc, cls) for the classes the except clauses name.
is_instance(exc, cls) ==
    \/ exc = cls
    \/ cls = "ConnectionError" /\ exc = "ConnectionRefusedError"
    \/ cls = "Exception" /\ exc \in RetrievalExceptions

no_backoff(retry_delay) == retry_delay

\* retry_delay *= 2
backoff(retry_delay) ==
    retry_delay * 2

RetryInit ==
    /\ rt_endpoint \in {"query", "ask_stream"}
    /\ rt_pc = "trying"
    /\ rt_attempts = <<>>
    /\ rt_waits = <<>>
    /\ rt_retry_delay = initial_retry_delay
    /\ rt_status = 0

\* One pass of the loop `for attempt in range(max_retries + 1)` of /api/query:
\* the call, and the except clause its exception selects.  TimeoutError,
\* ConnectionError and the final `except Exception` clause all sleep
\* retry_delay, double it and continue while attempt < max_retries, and answer
\* 503 on the last attempt; ValueError answers 400 at once.
QueryAttempt(outcome) ==
    /\ rt_endpoint = "query"
    /\ rt_pc = "trying"
    /\ rt_attempts' = Append(rt_attempts, outcome)
    /\ LET attempt == Len(rt_attempts)
       IN  IF outcome = "ok"
           THEN /\ rt_pc' = "retrieved"
                /\ rt_status' = 200
                /\ UNCHANGED <<rt_waits, rt_retry_delay>>
           ELSE IF is_instance(outcome, "ValueError")
           THEN /\ rt_pc' = "failed"
                /\ rt_status' = 400
                /\ UNCHANGED <<rt_waits, rt_retry_delay>>
           ELSE IF attempt < max_retries
           THEN /\ rt_waits' = Append(rt_waits, rt_retry_delay)
                /\ rt_retry_delay' = backoff(rt_retry_delay)
                /\ UNCHANGED <<rt_pc, rt_status>>
           ELSE /\ rt_pc' = "failed"
                /\ rt_status' = 503
                /\ UNCHANGED <<rt_waits, rt_retry_delay>>
    /\ UNCHANGED <<notRetryVars, rt_endpoint>>

\* /api/ask/stream calls retrieve_documents_with_telemetry once, outside any
\* loop; an exception leaves the generator's try block and the stream ends
\* with an error frame (the response itself has already started with 200).
AskStreamAttempt(outcome) ==
    /\ rt_endpoint = "ask_stream"
    /\ rt_pc = "trying"
    /\ rt_attempts' = Append(rt_attempts, outcome)
    /\ rt_pc' = IF outcome = "ok" THEN "retrieved" ELSE "failed"
    /\ rt_status' = 200
    /\ UNCHANGED <<notRetryVars, rt_endpoint, rt_waits, rt_retry_delay>>

NextRetry ==
    \/ \E outcome \in RetrievalOutcomes : QueryAttempt(outcome)
    \/ \E outcome \in RetrievalOutcomes : AskStreamAttempt(outcome)

InitRetry ==
    /\ StreamInit /\ QueueInit /\ max_concurrent_requests = 1
    /\ RestIdleExcept("retry")
    /\ RetryInit

SpecRetry == InitRetry /\ [][NextRetry]_vars

\* The waits slept so far are the first ones of the schedule 1 s, 2 s.
WaitsFollowSchedule ==
    /\ Len(rt_waits) <= 2
    /\ \A i \in 1..Len(rt_waits) : rt_waits[i] = <<1, 2>>[i]

StatusCodes == {"UNSET", "OK", "ERROR"}

\* The statuses the generation span of request r can carry once it is closed.
generation_span_statuses(r) ==
    IF gen_outcome[r] = "abandoned" THEN {"UNSET", "ERROR"}
    ELSE IF gen_outcome[r] \in {"ok", "exception"} THEN {"UNSET"}
    ELSE {}

\* The statuses the pipeline span of request r can carry when its
\* response_generator was cancelled.
pipeline_span_statuses(r) ==
    IF pc[r] = "cancelled" THEN {"UNSET", "ERROR"} ELSE StatusCodes

\* C36: when the client disconnects while chunks are being streamed, the
\* request's generation span and pipeline span are closed with the status
\* `cancelled`.
C36_DisconnectClosesSpansCancelled ==
    \A r \in Requests :
        (pc[r] = "cancelled" /\ llm_span[r] # "none")
            => /\ llm_span[r] = "closed"
               /\ generation_span_statuses(r) = {"cancelled"}
               /\ pipeline_span_statuses(r) = {"cancelled"}

\* ---------------------------------------------------------------------------
\* Bounded retries of the feedback lookup (telemetry/feedback.py).
\* ---------------------------------------------------------------------------
\* The lookups made so far under the response key, by position in fb_queries.
ResponseKeyQueries == {i \in 1..Len(fb_queries) : fb_queries[i] = "qa_id_response"}

\* The handler has gone on to the plain qa_id key.
FellBack == fb_key = "qa_id"

\* C37: the response key is looked up at most 3 times, all of them before any
\* lookup of the fallback key; the waits slept between its attempts are the
\* leading entries of 50, 100, 200 ms, one after each miss but the third; the
\* handler falls back only after exactly three misses; and once an attempt
\* has found a span no further lookup is made.
C37_ResponseKeyLookupIsBounded ==
    /\ [](/\ Cardinality(ResponseKeyQueries) <= 3
          /\ \A i \in ResponseKeyQueries : \A j \in 1..i : j \in ResponseKeyQueries
          /\ FellBack => Cardinality(ResponseKeyQueries) = 3
          /\ (fb_key = "qa_id_response" /\ fb_pc = "lookup")
                => /\ Len(fb_sleeps) = Cardinality(ResponseKeyQueries)
                   /\ Len(fb_sleeps) <= 2
          /\ \A i \in 1..Len(fb_sleeps) : i <= 2 => fb_sleeps[i] = <<50, 100, 200>>[i])
    /\ [][fb_span # 0 => fb_queries' = fb_queries]_vars

\* Three misses under the response key, with waits of 50 and 100 ms, then the
\* fallback key finds the span at its first attempt.
C37_Witness ==
    /\ fb_queries = <<"qa_id_response", "qa_id_response", "qa_id_response", "qa_id">>
    /\ fb_sleeps = <<50, 100>>
    /\ fb_span = SpanIds["qa_id"]
    /\ fb_pc = "done"

\* ---------------------------------------------------------------------------
\* Vector store connections (modules/vector_store_manager.py).  A key is in
\* _connections exactly when it is in _last_used: both are written by
\* _create_connection and deleted by _cleanup_connection, and the dict holds
\* the store strongly, so a stored handle is never None.
\* ---------------------------------------------------------------------------
cleanup_interval == 300

MaxStoreTicks == 4

StoreKeys == {"darwin", "hansard"}

StoreTimeSteps == {1, cleanup_interval \div 2}

\* _cleanup_expired_connections: the entries idle for more than the interval
\* are removed.
cleanup_expired_connections(last_used, current_time) ==
    [key \in {k \in DOMAIN last_used : ~(current_time - last_used[k] > cleanup_interval)} |-> last_used[key]]

\* _maybe_cleanup: the cleanup runs only when more than the interval has
\* passed since the last cleanup (or since the manager was constructed).
cleanup_is_due(current_time, last_cleanup) ==
    current_time - last_cleanup > cleanup_interval

StoreInit == StoreIdle

\* get_vector_store(key), under the lock: _maybe_cleanup, then the stored
\* handle with its _last_used refreshed, or a newly created connection.
GetVectorStore(key) ==
    LET due == cleanup_is_due(vs_now, vs_last_cleanup)
        kept == IF due THEN cleanup_expired_connections(vs_last_used, vs_now) ELSE vs_last_used
        hit == key \in DOMAIN kept
    IN  /\ vs_last_cleanup' = IF due THEN vs_now ELSE vs_last_cleanup
        /\ vs_last_used' = [k \in DOMAIN kept \cup {key} |-> IF k = key THEN vs_now ELSE kept[k]]
        /\ vs_returned' = [key |-> key, fresh |-> ~hit,
                           idle |-> IF hit THEN vs_now - kept[key] ELSE 0]
        /\ UNCHANGED <<notStoreVars, vs_now, vs_ticks>>

StoreTick(d) ==
    /\ vs_ticks < MaxStoreTicks
    /\ vs_now' = vs_now + d
    /\ vs_ticks' = vs_ticks + 1
    /\ UNCHANGED <<notStoreVars, vs_last_cleanup, vs_last_used, vs_returned>>

NextStore ==
    \/ \E key \in StoreKeys : GetVectorStore(key)
    \/ \E d \in StoreTimeSteps : StoreTick(d)

InitStore ==
    /\ StreamInit /\ QueueInit /\ max_concurrent_requests = 1
    /\ RestIdleExcept("store")
    /\ StoreInit

SpecStore == InitStore /\ [][NextStore]_vars

\* C38: a handle that get_vector_store returns from the pool was last used
\* at most cleanup_interval seconds earlier; an entry idle for longer is
\* dropped and the access gets a fresh handle.
C38_ReturnedHandleIsNotStale ==
    vs_returned.fresh \/ vs_returned.idle <= cleanup_interval

\* ---------------------------------------------------------------------------
\* Retrieval over all corpora (retrievers/hansard_retriever.py,
\* modules/document_retrieval.py).
\* ---------------------------------------------------------------------------
\* The corpora HansardRetriever declares besides "all", in declared order.
DeclaredCorpora == <<"1901_au", "1901_nz", "1901_uk">>

corpus_position(corpus) == CHOOSE i \in 1..Len(DeclaredCorpora) : DeclaredCorpora[i] = corpus

\* ceil(k / K)
per_corpus_share(k, K) == (k + K - 1) \div K

\* C39: with corpus_filter `all` on the retriever that supports corpus
\* filtering, the documents passed on hold at most ceil(k/K) documents of
\* each of the K declared corpora, grouped in the declared corpus order, and
\* at most k in total.
C39_AllIsBalancedAcrossCorpora ==
    (ret_pc = "done" /\ supports_corpus_filtering(ret_retriever)
                     /\ validated_corpus_filter(ret_request) = "all")
        => /\ Len(ret_documents) <= ret_k
           /\ \A i \in 1..Len(DeclaredCorpora) :
                Cardinality({d \in 1..Len(ret_documents) : ret_documents[d].corpus = DeclaredCorpora[i]})
                    <= per_corpus_share(ret_k, Len(DeclaredCorpora))
           /\ \A d, e \in 1..Len(ret_documents) :
                d < e => corpus_position(ret_documents[d].corpus) <= corpus_position(ret_documents[e].corpus)

\* ---------------------------------------------------------------------------
\* Time-to-live of the status records (services/queue_manager.py).
\* ---------------------------------------------------------------------------
\* C40: every status record request:<id> that exists has a time-to-live, and
\* it ends no later than REQUEST_TTL seconds after the job was queued: what
\* remains of it never exceeds REQUEST_TTL.
C40_StatusRecordHasFiniteTtl ==
    \A j \in Jobs :
        Live(request_key[j]) =>
            /\ request_key[j].expire_at # NoExpiry
            /\ request_key[j].expire_at - now <= REQUEST_TTL

=============================================================================
